---- MODULE Spec2Model ----
(***************************************************************************)
(* A model of no-consultant-weather.  The proxy server (server/index.js):  *)
(* the weather endpoint with its in-memory cache and the radar endpoint    *)
(* with its loop-page scraper.  The client: the helpers buildProductId,    *)
(* findNearestRadars and formatTime, and the refresh cycle of RadarViewer. *)
(*                                                                         *)
(* Strings the code inspects character by character (query values, the     *)
(* loop page, image paths) are sequences of one-character strings; strings *)
(* the code only passes around are TLA+ strings.  A value that may be null *)
(* is a sequence of length 0 (null) or 1 (the value).                      *)
(***************************************************************************)
EXTENDS Integers, Sequences, FiniteSets, TLC

VARIABLES
    now,            \* Date.now(), in milliseconds
    weatherCache,   \* the Map weatherCache: cache key -> [data, timestamp]
    req,            \* the /api/weather handlers suspended at an await, by slot
    res,            \* the response most recently sent by /api/weather
    served,         \* history: per cache key, the first and the latest 200 response computed upstream
    radarReq,       \* the /api/radar/:productId handlers suspended at an await
    radarRes,       \* the response to the latest /api/radar/:productId request (status 0: none yet)
    call,           \* a call of one of the exported helpers: the function and its arguments
    ret,            \* what that call has produced: its return value and its console output
    viewer,         \* the RadarViewer component: whether it is mounted, its props and its state
    timers,         \* the refresh intervals that are set, in the order they were set
    loads,          \* the fetchRadarImages calls awaited by loadImages, in the order they were issued
    viewerLog,      \* history: the latest event of the component, the loads and the frame
                    \* index before it, and whether it was an event of the mounted instance
    app,            \* RadarApp: the URL parameters, localStorage, and the component's state
    mock            \* the Express app of the backend test file: its cache, handler and response

vars == <<now, weatherCache, req, res, served, radarReq, radarRes, call, ret,
          viewer, timers, loads, viewerLog, app, mock>>

weatherVars == <<now, weatherCache, req, res, served>>
radarVars == <<radarReq, radarRes>>
viewerVars == <<viewer, timers, loads, viewerLog>>
clientVars == <<call, ret, viewerVars>>
appVars == <<app, mock>>

(***************************************************************************)
(* Bounds of the model.                                                    *)
(***************************************************************************)
MaxInFlight == 2    \* weather handlers that may be suspended at the same time
MaxSlack == 1       \* the clock is sampled at 0 and within MaxSlack ms of the TTL
MaxFrags == 3       \* fragments in an upstream loop page

Null == <<>>
Some(v) == <<v>>

RECURSIVE Concat(_)
Concat(s) == IF s = <<>> THEN "" ELSE Head(s) \o Concat(Tail(s))

(***************************************************************************)
(* JavaScript conversions used by the weather handler.                     *)
(***************************************************************************)
Digits == {"0", "1", "2", "3", "4", "5", "6", "7", "8", "9"}
WhiteSpace == {" ", "\t", "\n"}

DigitVal(c) ==
    CASE c = "0" -> 0 [] c = "1" -> 1 [] c = "2" -> 2 [] c = "3" -> 3 [] c = "4" -> 4
      [] c = "5" -> 5 [] c = "6" -> 6 [] c = "7" -> 7 [] c = "8" -> 8 [] c = "9" -> 9

RECURSIVE SkipWhile(_, _, _)
\* the first index >= i of s whose character is not in class (Len(s) + 1 if none)
SkipWhile(s, i, class) ==
    IF i <= Len(s) /\ s[i] \in class THEN SkipWhile(s, i + 1, class) ELSE i

RECURSIVE DigitsToNat(_)
DigitsToNat(ds) ==
    IF ds = <<>> THEN 0
    ELSE DigitsToNat(SubSeq(ds, 1, Len(ds) - 1)) * 10 + DigitVal(ds[Len(ds)])

RECURSIVE StripTrailingZeros(_)
StripTrailingZeros(ds) ==
    IF ds # <<>> /\ ds[Len(ds)] = "0"
    THEN StripTrailingZeros(SubSeq(ds, 1, Len(ds) - 1))
    ELSE ds

NaN == [nan |-> TRUE, neg |-> FALSE, int |-> 0, frac |-> <<>>]

\* parseFloat: leading white space, an optional sign, then the longest prefix
\* digits [. digits]; NaN when that prefix holds no digit.  A number is its
\* sign, its integer part and its fraction digits without trailing zeros.
parseFloat(s) ==
    LET i0 == SkipWhile(s, 1, WhiteSpace)
        signed == i0 <= Len(s) /\ s[i0] \in {"-", "+"}
        i1 == IF signed THEN i0 + 1 ELSE i0
        i2 == SkipWhile(s, i1, Digits)
        dot == i2 <= Len(s) /\ s[i2] = "."
        i3 == IF dot THEN SkipWhile(s, i2 + 1, Digits) ELSE i2
        intDigits == SubSeq(s, i1, i2 - 1)
        fracDigits == IF dot THEN SubSeq(s, i2 + 1, i3 - 1) ELSE <<>>
    IN  IF intDigits = <<>> /\ fracDigits = <<>>
        THEN NaN
        ELSE [nan |-> FALSE,
              neg |-> signed /\ s[i0] = "-",
              int |-> DigitsToNat(intDigits),
              frac |-> StripTrailingZeros(fracDigits)]

isNaN(n) == n.nan

\* `${n}` for a number n
NumberToString(n) ==
    IF n.nan THEN "NaN"
    ELSE (IF n.neg /\ (n.int # 0 \/ n.frac # <<>>) THEN "-" ELSE "")
         \o ToString(n.int)
         \o (IF n.frac = <<>> THEN "" ELSE "." \o Concat(n.frac))

\* a query value: absent (undefined) or a string
Absent == [def |-> FALSE, s |-> <<>>]
Str(s) == [def |-> TRUE, s |-> s]

\* !lat : undefined and the empty string are falsy
Falsy(q) == ~q.def \/ q.s = <<>>

CACHE_DURATION == 5 * 60 * 1000

\* a key built from the whole degrees only
cacheKeyRounded(latitude, longitude) ==
    NumberToString([latitude EXCEPT !.frac = <<>>]) \o ","
        \o NumberToString([longitude EXCEPT !.frac = <<>>])

\* line 113: `${latitude},${longitude}`
cacheKey(latitude, longitude) ==
    NumberToString(latitude) \o "," \o NumberToString(longitude)

(***************************************************************************)
(* Upstream (BoM) responses to one fetch.                                  *)
(*   reject  : fetch() rejects with Error(text)                            *)
(*   notok   : response.ok is false, response.statusText = text            *)
(*   badjson : response.ok, response.json() rejects with Error(text)       *)
(*   ok      : response.ok, the body parses; hasData says whether the      *)
(*             body has a (truthy) data member, data is that member        *)
(***************************************************************************)
Reject(text) == [kind |-> "reject", text |-> text, hasData |-> FALSE, data |-> <<>>]
NotOk(text) == [kind |-> "notok", text |-> text, hasData |-> FALSE, data |-> <<>>]
BadJson(text) == [kind |-> "badjson", text |-> text, hasData |-> FALSE, data |-> <<>>]
OkNoData == [kind |-> "ok", text |-> "OK", hasData |-> FALSE, data |-> <<>>]
OkData(d) == [kind |-> "ok", text |-> "OK", hasData |-> TRUE, data |-> d]

Brisbane == [geohash |-> "r7r7sg", name |-> "Brisbane", state |-> "QLD"]
Sydney == [geohash |-> "r3gx2f", name |-> "Sydney", state |-> "NSW"]
NoGeohash == [geohash |-> "", name |-> "Nowhere", state |-> "NT"]

\* what an async helper produces: it throws Error(message) or returns value
Throws(message) == [threw |-> TRUE, message |-> message, value |-> Null]
Returns(value) == [threw |-> FALSE, message |-> "", value |-> value]

\* a lookup that reads data.data[0] without looking at the length
fetchLocationGeohashNoLengthCheck(r) ==
    CASE r.kind = "reject" -> Throws(r.text)
      [] r.kind = "notok" -> Throws("BoM location API error: " \o r.text)
      [] r.kind = "badjson" -> Throws(r.text)
      [] r.kind = "ok" ->
            IF r.hasData /\ Len(r.data) > 0
            THEN Returns(Some(r.data[1]))
            ELSE Throws("Cannot read properties of undefined (reading 'geohash')")

\* a lookup that degrades like the two sub-fetches: null on a non-success status
fetchLocationGeohashLenient(r) ==
    CASE r.kind = "reject" -> Throws(r.text)
      [] r.kind = "notok" -> Returns(Null)
      [] r.kind = "badjson" -> Throws(r.text)
      [] r.kind = "ok" ->
            IF r.hasData /\ Len(r.data) > 0
            THEN Returns(Some(r.data[1]))
            ELSE Returns(Null)

fetchLocationGeohash(r) ==
    CASE r.kind = "reject" -> Throws(r.text)
      [] r.kind = "notok" -> Throws("BoM location API error: " \o r.text)
      [] r.kind = "badjson" -> Throws(r.text)
      [] r.kind = "ok" ->
            IF r.hasData /\ Len(r.data) > 0
            THEN Returns(Some(r.data[1]))
            ELSE Returns(Null)

fetchObservations(r) ==
    CASE r.kind = "reject" -> Throws(r.text)
      [] r.kind = "notok" -> Returns(Null)
      [] r.kind = "badjson" -> Throws(r.text)
      [] r.kind = "ok" -> IF r.hasData THEN Returns(Some(r.data[1])) ELSE Returns(Null)

fetchDailyForecast(r) ==
    CASE r.kind = "reject" -> Throws(r.text)
      [] r.kind = "notok" -> Returns(Null)
      [] r.kind = "badjson" -> Throws(r.text)
      [] r.kind = "ok" ->
            IF r.hasData /\ Len(r.data) > 0
            THEN Returns(Some([today |-> r.data[1], daily |-> r.data]))
            ELSE Returns(Null)

(***************************************************************************)
(* GET /api/weather                                                        *)
(***************************************************************************)
Slots == 1..MaxInFlight

\* the upstream fetches a request has issued so far, by endpoint
NoCalls == [geo |-> 0, obs |-> 0, fc |-> 0]

IdleSlot ==
    [pc |-> "idle", lat |-> Absent, lng |-> Absent, cached |-> Null,
     geo |-> Null, location |-> Null, obs |-> Null, fc |-> Null, calls |-> NoCalls]

NoResponse ==
    [status |-> 0, error |-> "", message |-> "", data |-> Null,
     lat |-> Absent, lng |-> Absent, cached |-> Null, fromCache |-> FALSE, at |-> 0,
     geo |-> Null, fanout |-> FALSE, obs |-> Null, fc |-> Null, calls |-> NoCalls]

\* res.status(status).json({error, message}) of the request held in slot r
ErrorResponse(r, status, error, message) ==
    [status |-> status, error |-> error, message |-> message, data |-> Null,
     lat |-> r.lat, lng |-> r.lng, cached |-> r.cached, fromCache |-> FALSE, at |-> now,
     geo |-> Null, fanout |-> FALSE, obs |-> Null, fc |-> Null, calls |-> r.calls]

\* res.json(data) of the request held in slot r
OkResponse(r, data) ==
    [status |-> 200, error |-> "", message |-> "", data |-> Some(data),
     lat |-> r.lat, lng |-> r.lng, cached |-> r.cached, fromCache |-> FALSE, at |-> now,
     geo |-> Null, fanout |-> FALSE, obs |-> Null, fc |-> Null, calls |-> r.calls]

\* weatherCache.get(key): the entry, or null (undefined) when there is none
CacheGet(key) ==
    IF key \in DOMAIN weatherCache THEN Some(weatherCache[key]) ELSE Null

\* a cache check that still serves an entry exactly CACHE_DURATION old
CacheHitInclusive(cached) ==
    /\ cached # Null
    /\ now - cached[1].timestamp <= CACHE_DURATION

\* cached && (Date.now() - cached.timestamp < CACHE_DURATION)
CacheHit(cached) ==
    /\ cached # Null
    /\ now - cached[1].timestamp < CACHE_DURATION

\* a cache write that leaves an entry alone while it is fresh
CacheSetUnlessFresh(cache, key, entry) ==
    IF key \in DOMAIN cache /\ entry.timestamp - cache[key].timestamp < CACHE_DURATION
    THEN cache
    ELSE [k \in DOMAIN cache \cup {key} |-> IF k = key THEN entry ELSE cache[k]]

\* a cache write that keeps an entry already present
CacheSetIfAbsent(cache, key, entry) ==
    [k \in DOMAIN cache \cup {key} |-> IF k \in DOMAIN cache THEN cache[k] ELSE entry]

\* weatherCache.set(key, entry)
CacheSet(cache, key, entry) ==
    [k \in DOMAIN cache \cup {key} |-> IF k = key THEN entry ELSE cache[k]]

\* the history of 200 responses computed upstream, per key: the first of the
\* current 5-minute window and the latest
Record(hist, key, data) ==
    LET e == [data |-> data, at |-> now]
        first == IF key \in DOMAIN hist /\ now - hist[key].first.at < CACHE_DURATION
                 THEN hist[key].first
                 ELSE e
    IN  [k \in DOMAIN hist \cup {key} |->
            IF k = key THEN [first |-> first, last |-> e] ELSE hist[k]]

\* lines 95-122: validation, cache check, and the call of fetchLocationGeohash
\* up to its await fetch(url)
WeatherRequest(s, lat, lng) ==
    /\ req[s].pc = "idle"
    /\ \A t \in Slots : t < s => req[t].pc # "idle"
    /\ LET latitude == parseFloat(lat.s)
           longitude == parseFloat(lng.s)
           key == cacheKey(latitude, longitude)
           unchecked == [IdleSlot EXCEPT !.lat = lat, !.lng = lng]
           r == [unchecked EXCEPT !.cached = CacheGet(key)]
       IN  IF Falsy(lat) \/ Falsy(lng)
           THEN /\ res' = ErrorResponse(unchecked, 400, "Missing required parameters: lat and lng", "")
                /\ UNCHANGED <<req, weatherCache>>
           ELSE IF isNaN(latitude) \/ isNaN(longitude)
           THEN /\ res' = ErrorResponse(unchecked, 400, "Invalid coordinates: lat and lng must be numbers", "")
                /\ UNCHANGED <<req, weatherCache>>
           ELSE IF CacheHit(r.cached)
           THEN /\ res' = [OkResponse(r, r.cached[1].data) EXCEPT !.fromCache = TRUE]
                /\ UNCHANGED <<req, weatherCache>>
           ELSE /\ req' = [req EXCEPT ![s] = [r EXCEPT !.pc = "geocode", !.calls.geo = @ + 1]]
                /\ UNCHANGED <<res, weatherCache>>
    /\ UNCHANGED <<now, served, radarVars, clientVars, appVars>>

\* a handler that calls the location API once more when the call failed
GeocodeSettlesRetrying(s, g) ==
    /\ req[s].pc = "geocode"
    /\ LET r == req[s]
           locationData == fetchLocationGeohash(g)
       IN  IF locationData.threw /\ r.calls.geo < 2
           THEN /\ req' = [req EXCEPT ![s].calls.geo = @ + 1]
                /\ UNCHANGED res
           ELSE IF locationData.threw
           THEN /\ res' = [ErrorResponse(r, 500, "Failed to fetch weather data", locationData.message)
                              EXCEPT !.geo = Some(g)]
                /\ req' = [req EXCEPT ![s] = IdleSlot]
           ELSE IF locationData.value = Null \/ locationData.value[1].geohash = ""
           THEN /\ res' = [ErrorResponse(r, 404, "Could not find location data for these coordinates", "")
                              EXCEPT !.geo = Some(g)]
                /\ req' = [req EXCEPT ![s] = IdleSlot]
           ELSE /\ req' = [req EXCEPT ![s] = [r EXCEPT !.pc = "fanout", !.geo = Some(g),
                                                        !.location = locationData.value,
                                                        !.calls.obs = @ + 1,
                                                        !.calls.fc = @ + 1]]
                /\ UNCHANGED res
    /\ UNCHANGED <<now, weatherCache, served, radarVars, clientVars, appVars>>

\* lines 171-190 and 124-134: the geocode call settles; on a usable location
\* both sub-fetches are issued
GeocodeSettles(s, g) ==
    /\ req[s].pc = "geocode"
    /\ LET r == req[s]
           locationData == fetchLocationGeohash(g)
       IN  IF locationData.threw
           THEN /\ res' = [ErrorResponse(r, 500, "Failed to fetch weather data", locationData.message)
                              EXCEPT !.geo = Some(g)]
                /\ req' = [req EXCEPT ![s] = IdleSlot]
           ELSE IF locationData.value = Null \/ locationData.value[1].geohash = ""
           THEN /\ res' = [ErrorResponse(r, 404, "Could not find location data for these coordinates", "")
                              EXCEPT !.geo = Some(g)]
                /\ req' = [req EXCEPT ![s] = IdleSlot]
           ELSE /\ req' = [req EXCEPT ![s] = [r EXCEPT !.pc = "fanout", !.geo = Some(g),
                                                        !.location = locationData.value,
                                                        !.calls.obs = @ + 1,
                                                        !.calls.fc = @ + 1]]
                /\ UNCHANGED res
    /\ UNCHANGED <<now, weatherCache, served, radarVars, clientVars, appVars>>

\* a handler that caches a payload only when it is complete
AssembleCachingComplete(s, r) ==
    LET latitude == parseFloat(r.lat.s)
        longitude == parseFloat(r.lng.s)
        key == cacheKey(latitude, longitude)
        locationData == r.location[1]
        weatherData ==
            [location |-> [name |-> locationData.name, state |-> locationData.state,
                           geohash |-> locationData.geohash,
                           lat |-> latitude, lng |-> longitude],
             observations |-> fetchObservations(r.obs[1]).value,
             forecast |-> fetchDailyForecast(r.fc[1]).value]
        written == weatherData.observations # Null /\ weatherData.forecast # Null
    IN  /\ weatherCache' = IF written
                           THEN CacheSet(weatherCache, key, [data |-> weatherData, timestamp |-> now])
                           ELSE weatherCache
        /\ served' = IF written THEN Record(served, key, weatherData) ELSE served
        /\ res' = [OkResponse(r, weatherData) EXCEPT !.geo = r.geo, !.fanout = TRUE,
                                                      !.obs = r.obs, !.fc = r.fc]
        /\ req' = [req EXCEPT ![s] = IdleSlot]

\* a handler that writes the cache only if the entry is still the one it read
AssembleUnlessOverwritten(s, r) ==
    LET latitude == parseFloat(r.lat.s)
        longitude == parseFloat(r.lng.s)
        key == cacheKey(latitude, longitude)
        locationData == r.location[1]
        weatherData ==
            [location |-> [name |-> locationData.name, state |-> locationData.state,
                           geohash |-> locationData.geohash,
                           lat |-> latitude, lng |-> longitude],
             observations |-> fetchObservations(r.obs[1]).value,
             forecast |-> fetchDailyForecast(r.fc[1]).value]
        written == CacheGet(key) = r.cached
    IN  /\ weatherCache' = IF written
                           THEN CacheSet(weatherCache, key, [data |-> weatherData, timestamp |-> now])
                           ELSE weatherCache
        /\ served' = IF written THEN Record(served, key, weatherData) ELSE served
        /\ res' = [OkResponse(r, weatherData) EXCEPT !.geo = r.geo, !.fanout = TRUE,
                                                      !.obs = r.obs, !.fc = r.fc]
        /\ req' = [req EXCEPT ![s] = IdleSlot]

\* lines 136-154: both sub-fetches fulfilled; assemble, cache, respond
Assemble(s, r) ==
    LET latitude == parseFloat(r.lat.s)
        longitude == parseFloat(r.lng.s)
        key == cacheKey(latitude, longitude)
        locationData == r.location[1]
        weatherData ==
            [location |-> [name |-> locationData.name, state |-> locationData.state,
                           geohash |-> locationData.geohash,
                           lat |-> latitude, lng |-> longitude],
             observations |-> fetchObservations(r.obs[1]).value,
             forecast |-> fetchDailyForecast(r.fc[1]).value]
    IN  /\ weatherCache' = CacheSet(weatherCache, key, [data |-> weatherData, timestamp |-> now])
        /\ served' = Record(served, key, weatherData)
        /\ res' = [OkResponse(r, weatherData) EXCEPT !.geo = r.geo, !.fanout = TRUE,
                                                      !.obs = r.obs, !.fc = r.fc]
        /\ req' = [req EXCEPT ![s] = IdleSlot]

\* a failure path that also drops the entry of the key
AggregationFailsEvicting(s, r, message) ==
    /\ res' = [ErrorResponse(r, 500, "Failed to fetch weather data", message)
                  EXCEPT !.geo = r.geo, !.fanout = TRUE, !.obs = r.obs, !.fc = r.fc]
    /\ req' = [req EXCEPT ![s] = IdleSlot]
    /\ weatherCache' =
          LET key == cacheKey(parseFloat(r.lat.s), parseFloat(r.lng.s))
          IN  [k \in DOMAIN weatherCache \ {key} |-> weatherCache[k]]
    /\ UNCHANGED served

\* lines 131-134 and 156-161: Promise.all rejected by a sub-fetch that threw
AggregationFails(s, r, message) ==
    /\ res' = [ErrorResponse(r, 500, "Failed to fetch weather data", message)
                  EXCEPT !.geo = r.geo, !.fanout = TRUE, !.obs = r.obs, !.fc = r.fc]
    /\ req' = [req EXCEPT ![s] = IdleSlot]
    /\ UNCHANGED <<weatherCache, served>>

\* one of the two sub-fetches settled; r is the handler's state with its outcome
SubFetchSettled(s, r, outcome) ==
    IF outcome.threw
    THEN AggregationFails(s, r, outcome.message)
    ELSE IF r.obs # Null /\ r.fc # Null
    THEN Assemble(s, r)
    ELSE /\ req' = [req EXCEPT ![s] = r]
         /\ UNCHANGED <<res, weatherCache, served>>

\* lines 195-207
ObservationsSettles(s, o) ==
    /\ req[s].pc = "fanout"
    /\ req[s].obs = Null
    /\ SubFetchSettled(s, [req[s] EXCEPT !.obs = Some(o)], fetchObservations(o))
    /\ UNCHANGED <<now, radarVars, clientVars, appVars>>

\* lines 212-233
ForecastSettles(s, f) ==
    /\ req[s].pc = "fanout"
    /\ req[s].fc = Null
    /\ SubFetchSettled(s, [req[s] EXCEPT !.fc = Some(f)], fetchDailyForecast(f))
    /\ UNCHANGED <<now, radarVars, clientVars, appVars>>

\* time passes
Tick(t) ==
    /\ t > now
    /\ now' = t
    /\ UNCHANGED <<weatherCache, req, res, served, radarVars, clientVars, appVars>>

(***************************************************************************)
(* GET /api/radar/:productId                                               *)
(***************************************************************************)
Quotes == {"\"", "'"}
Keyword == <<"t", "h", "e", "I", "m", "a", "g", "e", "N", "a", "m", "e", "s">>
RadarHost == <<"https://reg.bom.gov.au">>

\* does the literal lit occur in s at index i
LiteralAt(s, i, lit) ==
    /\ i + Len(lit) - 1 <= Len(s)
    /\ SubSeq(s, i, i + Len(lit) - 1) = lit

RECURSIVE SkipNonQuotes(_, _)
SkipNonQuotes(s, i) ==
    IF i <= Len(s) /\ s[i] \notin Quotes THEN SkipNonQuotes(s, i + 1) ELSE i

NoMatch == [ok |-> FALSE, group |-> <<>>, end |-> 0]

\* one attempt of /theImageNames\[\d+\]\s*=\s*["']([^"']+)["']/ at index i:
\* group is the capture, end the index after the match
ImageNameAt(html, i) ==
    LET d0 == i + Len(Keyword) + 1
        d1 == SkipWhile(html, d0, Digits)
        w1 == SkipWhile(html, d1 + 1, WhiteSpace)
        w2 == SkipWhile(html, w1 + 1, WhiteSpace)
        c1 == SkipNonQuotes(html, w2 + 1)
    IN  IF /\ LiteralAt(html, i, Keyword \o <<"[">>)
           /\ d1 > d0
           /\ d1 <= Len(html) /\ html[d1] = "]"
           /\ w1 <= Len(html) /\ html[w1] = "="
           /\ w2 <= Len(html) /\ html[w2] \in Quotes
           /\ c1 > w2 + 1
           /\ c1 <= Len(html) /\ html[c1] \in Quotes
        THEN [ok |-> TRUE, group |-> SubSeq(html, w2 + 1, c1 - 1), end |-> c1 + 1]
        ELSE NoMatch

RECURSIVE RegexExec(_, _)
\* regex.exec(html) with regex.lastIndex = lastIndex: the leftmost match at or
\* after lastIndex
RegexExec(html, lastIndex) ==
    IF lastIndex > Len(html) THEN NoMatch
    ELSE IF ImageNameAt(html, lastIndex).ok THEN ImageNameAt(html, lastIndex)
    ELSE RegexExec(html, lastIndex + 1)

\* is v an element of the sequence s
Contains(s, v) == \E i \in 1..Len(s) : s[i] = v

RECURSIVE ParseLoopDistinct(_, _, _)
\* a scan that drops a path it has already collected
ParseLoopDistinct(html, lastIndex, imageNames) ==
    LET match == RegexExec(html, lastIndex)
    IN  IF match.ok
        THEN ParseLoopDistinct(html, match.end,
                 IF Contains(imageNames, match.group) THEN imageNames
                 ELSE Append(imageNames, match.group))
        ELSE imageNames

RECURSIVE ParseLoop(_, _, _)
\* lines 66-71: the exec loop, from regex.lastIndex = lastIndex
ParseLoop(html, lastIndex, imageNames) ==
    LET match == RegexExec(html, lastIndex)
    IN  IF match.ok
        THEN ParseLoop(html, match.end, Append(imageNames, match.group))
        ELSE imageNames

parseImageNames(html) == ParseLoop(html, 1, <<>>)

\* one attempt of /\.T\.(\d+)\.png/ at index i
TimestampAt(path, i) ==
    LET d0 == i + 3
        d1 == SkipWhile(path, d0, Digits)
    IN  IF /\ LiteralAt(path, i, <<".", "T", ".">>)
           /\ d1 > d0
           /\ LiteralAt(path, d1, <<".", "p", "n", "g">>)
        THEN [ok |-> TRUE, group |-> SubSeq(path, d0, d1 - 1), end |-> d1 + 4]
        ELSE NoMatch

RECURSIVE TimestampFrom(_, _)
TimestampFrom(path, i) ==
    IF i > Len(path) THEN NoMatch
    ELSE IF TimestampAt(path, i).ok THEN TimestampAt(path, i)
    ELSE TimestampFrom(path, i + 1)

extractTimestamp(path) ==
    LET match == TimestampFrom(path, 1)
    IN  IF match.ok THEN match.group ELSE <<>>

(***************************************************************************)
(* Upstream loop pages.  A page is a sequence of fragments: assignments    *)
(* theImageNames[index] = "path" in several spellings, and text that       *)
(* resembles one without being one.                                        *)
(***************************************************************************)
Assignment(index, space, open, path, close) ==
    [kind |-> "assignment", path |-> path,
     text |-> Keyword \o <<"[">> \o index \o <<"]">> \o space \o <<"=">> \o space
              \o <<open>> \o path \o <<close, ";", "\n">>]
Filler(text) == [kind |-> "filler", path |-> <<>>, text |-> text]
\* an assignment whose string is never closed
Unclosed(index, open, path) ==
    [kind |-> "unclosed", path |-> path,
     text |-> Keyword \o <<"[">> \o index \o <<"]", "=", open>> \o path]

PathA == <<"/", "a", ".", "T", ".", "1", "2", ".", "p", "n", "g">>
PathB == <<"/", "b", ".", "p", "n", "g">>
PathC == <<"/", "c", ".", "X", ".", "3", ".", "p", "n", "g">>

Fragments ==
    { Assignment(<<"1">>, <<" ">>, "\"", PathA, "\""),
      Assignment(<<"0">>, <<>>, "'", PathB, "'"),
      Assignment(<<"1", "0">>, <<" ", "\n">>, "\"", PathC, "'"),
      Filler(<<"<", "p", ">", "\n">>),
      Filler(Keyword \o <<"[", "]", " ", "=", " ", "\"", "/", "x", "\"", ";">>),
      Filler(Keyword \o <<"[", "2", "]", " ", "=", " ", "\"", "\"", ";">>),
      Unclosed(<<"3">>, "\"", <<"/", "u">>) }

Pages == UNION { [1..n -> Fragments] : n \in 0..MaxFrags }

RECURSIVE PageText(_)
\* the text of the page: its fragments' texts, concatenated
PageText(page) ==
    IF page = <<>> THEN <<>> ELSE Head(page).text \o PageText(Tail(page))

\* upstream responses to the loop-page fetch
\*   reject  : fetch() rejects with Error(text)
\*   notok   : response.ok is false, with status and statusText = text
\*   badtext : response.ok, response.text() rejects with Error(text)
\*   ok      : response.ok, response.text() is the text of page
LoopReject(text) == [kind |-> "reject", status |-> 0, text |-> text, page |-> <<>>]
LoopNotOk(status, text) == [kind |-> "notok", status |-> status, text |-> text, page |-> <<>>]
LoopBadText(text) == [kind |-> "badtext", status |-> 200, text |-> text, page |-> <<>>]
LoopOk(page) == [kind |-> "ok", status |-> 200, text |-> "OK", page |-> page]

LoopResponses ==
    { LoopReject("Network error"), LoopBadText("terminated"),
      LoopNotOk(404, "Not Found"), LoopNotOk(500, "Internal Server Error"),
      LoopNotOk(503, "Service Unavailable") }
    \cup { LoopOk(page) : page \in Pages }

ProductIds == {"IDR663", "INVALID"}

\* fetches: the upstream fetches the request has issued
IdleRadar == [pc |-> "idle", productId |-> "", fetches |-> 0]
NoRadarResponse ==
    [status |-> 0, error |-> "", message |-> "", hasImages |-> FALSE, images |-> <<>>,
     productId |-> "", upstream |-> LoopReject(""), parsed |-> FALSE, fetches |-> 0]

\* a handler that forgets the empty check
NoImagesNever(imageUrls) == FALSE

\* line 34: imageUrls.length === 0
NoImages(imageUrls) == Len(imageUrls) = 0

\* an upstream failure answered with a fixed status
UpstreamFailureAs502(u) ==
    [status |-> 502, error |-> "Failed to fetch radar data: " \o u.text]

\* lines 24-26: res.status(response.status).json({error})
UpstreamFailure(u) ==
    [status |-> u.status, error |-> "Failed to fetch radar data: " \o u.text]

\* lines 15-21: up to await fetch(loopUrl)
RadarRequest(productId) ==
    /\ radarReq.pc = "idle"
    /\ radarReq' = [pc |-> "fetch", productId |-> productId, fetches |-> radarReq.fetches + 1]
    /\ radarRes' = NoRadarResponse
    /\ UNCHANGED <<weatherVars, clientVars, appVars>>

\* lines 23-54: the loop-page fetch settles; parsed records whether
\* parseImageNames ran
LoopPageSettles(u) ==
    /\ radarReq.pc = "fetch"
    /\ LET base == [NoRadarResponse EXCEPT !.productId = radarReq.productId, !.upstream = u,
                                           !.fetches = radarReq.fetches]
           imageUrls == parseImageNames(PageText(u.page))
           images == [i \in 1..Len(imageUrls) |->
                        [url |-> RadarHost \o imageUrls[i],
                         timestamp |-> extractTimestamp(imageUrls[i])]]
       IN  radarRes' =
             CASE u.kind = "notok" ->
                    [base EXCEPT !.status = UpstreamFailure(u).status,
                                 !.error = UpstreamFailure(u).error]
               [] u.kind \in {"reject", "badtext"} ->
                    [base EXCEPT !.status = 500, !.error = "Internal server error",
                                 !.message = u.text]
               [] u.kind = "ok" /\ NoImages(imageUrls) ->
                    [base EXCEPT !.status = 404, !.error = "No radar images found",
                                 !.parsed = TRUE]
               [] u.kind = "ok" /\ ~NoImages(imageUrls) ->
                    [base EXCEPT !.status = 200, !.hasImages = TRUE, !.images = images,
                                 !.parsed = TRUE]
    /\ radarReq' = IdleRadar
    /\ UNCHANGED <<weatherVars, clientVars, appVars>>

\* no helper is being called
NoCall == [fn |-> "", args |-> <<>>]

\* a call that has not returned: no value, nothing thrown, nothing logged
Pending == [done |-> FALSE, value |-> Null, threw |-> FALSE, warnings |-> 0]

\* the server as started: an empty cache and no request in progress
ServerInit ==
    /\ now = 0
    /\ weatherCache = <<>>
    /\ req = [s \in Slots |-> IdleSlot]
    /\ res = NoResponse
    /\ served = <<>>
    /\ radarReq = IdleRadar
    /\ radarRes = NoRadarResponse

\* the page before RadarViewer is rendered; the state is that of useState.
\* animation is the interval of the animation effect: Null when none is set,
\* else the images.length that its callback has captured
Unmounted ==
    [mounted |-> FALSE, mode |-> "rain", range |-> "128",
     images |-> <<>>, currentIndex |-> 0, isPlaying |-> TRUE, isLoading |-> TRUE,
     error |-> Null, radarError |-> Null, animation |-> Null]

ViewerInit ==
    /\ viewer = Unmounted
    /\ timers = <<>>
    /\ loads = <<>>
    /\ viewerLog = [event |-> "", before |-> <<>>, live |-> FALSE, index |-> 0]

\* the page before RadarApp is rendered
Closed ==
    [pc |-> "closed", radarId |-> Null, saved |-> Null, selectedRadar |-> Null,
     selectedRange |-> "128", radarMode |-> "rain", ip |-> "idle",
     event |-> [name |-> "", range |-> "", modeBefore |-> ""]]

\* what the test app has sent: res.status(status).json(body)
NoMockResponse == [status |-> 0, error |-> "", message |-> "", data |-> Null]

\* the test app as created: new Map(), no request in progress; of is the
\* exchange of server/index.js that it was last given
MockIdle ==
    [cache |-> <<>>, pc |-> "idle", lat |-> Absent, lng |-> Absent,
     location |-> Null, obs |-> Null, fc |-> Null, res |-> NoMockResponse,
     of |-> NoResponse]

AppInit ==
    /\ app = Closed
    /\ mock = MockIdle

Init ==
    /\ call = NoCall
    /\ ret = Pending
    /\ ServerInit
    /\ ViewerInit
    /\ AppInit

(***************************************************************************)
(* Three explorations of the weather handler.  They share every action and *)
(* differ in the inputs they draw.                                         *)
(*   Spec           : concurrent handlers on one key, the clock sampled    *)
(*                    around the TTL, upstream data that changes           *)
(*   AggregateSpec  : one handler at a time, every upstream outcome, and   *)
(*                    requests that fail validation in between             *)
(*   ValidationSpec : one handler at a time, every shape of query value    *)
(***************************************************************************)
ClockValues ==
    {0} \cup ((CACHE_DURATION - MaxSlack)..(CACHE_DURATION + MaxSlack))

Next ==
    \/ \E s \in Slots : WeatherRequest(s, Str(<<"1">>), Str(<<"3">>))
    \/ \E s \in Slots : GeocodeSettles(s, OkData(<<Brisbane, Sydney>>))
    \/ \E s \in Slots, o \in {OkData(<<"temp25">>), OkData(<<"temp31">>)} :
            ObservationsSettles(s, o)
    \/ \E s \in Slots : ForecastSettles(s, OkData(<<"day1">>))
    \/ \E t \in ClockValues : Tick(t)

Spec == Init /\ [][Next]_vars

(***************************************************************************)
(* Concurrent handlers on one key while the observations and the forecast  *)
(* API answer with a non-success status or with data.                      *)
(***************************************************************************)
DegradedNext ==
    \/ \E s \in Slots : WeatherRequest(s, Str(<<"1">>), Str(<<"3">>))
    \/ \E s \in Slots : GeocodeSettles(s, OkData(<<Brisbane, Sydney>>))
    \/ \E s \in Slots, o \in {NotOk("Bad Gateway"), OkData(<<"temp25">>)} :
            ObservationsSettles(s, o)
    \/ \E s \in Slots, f \in {NotOk("Bad Gateway"), OkData(<<"day1">>)} :
            ForecastSettles(s, f)
    \/ \E t \in {CACHE_DURATION - MaxSlack, CACHE_DURATION} : Tick(t)

DegradedSpec == Init /\ [][DegradedNext]_vars

GeoResponses ==
    { Reject("Network error"), NotOk("Service Unavailable"), BadJson("Unexpected token"),
      OkNoData, OkData(<<>>), OkData(<<NoGeohash, Sydney>>), OkData(<<Brisbane, Sydney>>) }

ObsResponses ==
    { Reject("Network error"), NotOk("Bad Gateway"), BadJson("Unexpected token"),
      OkNoData, OkData(<<"temp25">>), OkData(<<"temp31">>) }

ForecastResponses ==
    { Reject("Network error"), NotOk("Bad Gateway"), BadJson("Unexpected token"),
      OkNoData, OkData(<<>>), OkData(<<"day1">>), OkData(<<"day2", "day1">>) }

AggregateLatInputs == { Str(<<"1">>), Str(<<"a">>), Absent }

AggregateNext ==
    \/ \E lat \in AggregateLatInputs : WeatherRequest(1, lat, Str(<<"3">>))
    \/ \E g \in GeoResponses : GeocodeSettles(1, g)
    \/ \E o \in ObsResponses : ObservationsSettles(1, o)
    \/ \E f \in ForecastResponses : ForecastSettles(1, f)
    \/ \E t \in {CACHE_DURATION} : Tick(t)

AggregateSpec == Init /\ [][AggregateNext]_vars

LatInputs ==
    { Absent, Str(<<>>), Str(<<"a">>), Str(<<"a", "1">>), Str(<<"1">>), Str(<<"1", "a">>),
      Str(<<"1", ".", "0">>), Str(<<" ", "-", "2">>) }
LngInputs == { Absent, Str(<<>>), Str(<<"x">>), Str(<<"3">>) }

ValidationNext ==
    \/ \E lat \in LatInputs, lng \in LngInputs : WeatherRequest(1, lat, lng)
    \/ \E g \in {NotOk("Service Unavailable"), OkData(<<Brisbane, Sydney>>)} : GeocodeSettles(1, g)
    \/ ObservationsSettles(1, OkData(<<"temp25">>))
    \/ \E f \in {NotOk("Bad Gateway"), OkData(<<"day1">>)} : ForecastSettles(1, f)

ValidationSpec == Init /\ [][ValidationNext]_vars

(***************************************************************************)
(* One handler at a time on coordinates that are close to each other: the  *)
(* same number written in two ways, numbers that differ in one digit, and  *)
(* pairs whose digits run together to the same string without the comma.   *)
(***************************************************************************)
KeyLatInputs ==
    { Str(<<"1">>), Str(<<"1", ".", "0">>), Str(<<"1", ".", "5">>), Str(<<"1", "5">>) }
KeyLngInputs == { Str(<<"3">>), Str(<<"5", "3">>) }

KeyNext ==
    \/ \E lat \in KeyLatInputs, lng \in KeyLngInputs : WeatherRequest(1, lat, lng)
    \/ GeocodeSettles(1, OkData(<<Brisbane, Sydney>>))
    \/ ObservationsSettles(1, OkData(<<"temp25">>))
    \/ ForecastSettles(1, OkData(<<"day1">>))

KeySpec == Init /\ [][KeyNext]_vars

RadarNext ==
    \/ \E productId \in ProductIds : RadarRequest(productId)
    \/ \E u \in LoopResponses : LoopPageSettles(u)

RadarSpec == Init /\ [][RadarNext]_vars

(***************************************************************************)
(* Both endpoints of the server at once: one weather request at a time     *)
(* with every upstream outcome, and radar requests answered by a failure,  *)
(* a page without images or a page with one image.                         *)
(***************************************************************************)
ServerLoopResponses ==
    { LoopReject("Network error"), LoopNotOk(503, "Service Unavailable"),
      LoopOk(<<>>), LoopOk(<<Assignment(<<"0">>, <<" ">>, "\"", PathA, "\"")>>) }

ServerNext ==
    \/ WeatherRequest(1, Str(<<"1">>), Str(<<"3">>))
    \/ \E g \in GeoResponses : GeocodeSettles(1, g)
    \/ \E o \in ObsResponses : ObservationsSettles(1, o)
    \/ \E f \in ForecastResponses : ForecastSettles(1, f)
    \/ \E productId \in ProductIds : RadarRequest(productId)
    \/ \E u \in ServerLoopResponses : LoopPageSettles(u)

ServerSpec == Init /\ [][ServerNext]_vars

(***************************************************************************)
(* The exported helpers, called on their own.  Each has a specification    *)
(* that starts with a call drawn from a set of arguments and lets the call *)
(* return.                                                                 *)
(***************************************************************************)
\* a call that returned value, having logged warnings lines with console.warn
Returned(value, warnings) ==
    [done |-> TRUE, value |-> Some(value), threw |-> FALSE, warnings |-> warnings]

\* extractTimestamp(path), lines 78-81
ExtractTimestampReturns ==
    /\ call.fn = "extractTimestamp"
    /\ ~ret.done
    /\ ret' = Returned(extractTimestamp(call.args[1]), 0)
    /\ UNCHANGED <<call, weatherVars, radarVars, viewerVars, appVars>>

\* the digits of a file name: a prefix of an acquisition time with one more digit
Stamp == <<"2", "0", "2", "5", "1", "2", "0", "4", "0", "1", "0", "0", "7">>
DigitRuns == { SubSeq(Stamp, 1, n) : n \in {0, 1, Len(Stamp) - 2, Len(Stamp) - 1, Len(Stamp)} }

PathPrefixes == { <<>>, <<"/", "r">>, <<"/", "r", ".", "T", ".", "x">>, <<"/", "6", "6", "3">> }
PathMarkers == { <<".", "T", ".">>, <<".", "X", ".">>, <<".", "t", ".">>, <<".">> }
PathSuffixes == { <<".", "p", "n", "g">>, <<".", "j", "p", "g">>,
                  <<".", "p", "n", "g", ".", "T", ".", "5", ".", "p", "n", "g">> }

Paths ==
    { prefix \o marker \o digits \o suffix :
        prefix \in PathPrefixes, marker \in PathMarkers,
        digits \in DigitRuns, suffix \in PathSuffixes }

TimestampInit ==
    /\ call \in { [fn |-> "extractTimestamp", args |-> <<path>>] : path \in Paths }
    /\ ret = Pending
    /\ ServerInit
    /\ ViewerInit
    /\ AppInit

TimestampNext == ExtractTimestampReturns

TimestampSpec == TimestampInit /\ [][TimestampNext]_vars

(***************************************************************************)
(* buildProductId (src/utils/radarApi.ts).  Base ids and product ids are   *)
(* sequences of characters; dopplerProductId is an optional argument.      *)
(***************************************************************************)
\* the suffixes numbered upwards with the range
rangeSuffixAscending(range) ==
    IF range = "64" THEN "1" ELSE IF range = "128" THEN "2"
    ELSE IF range = "256" THEN "3" ELSE "4"

\* line 102: the range suffix, 512 km being the else branch
rangeSuffix(range) ==
    IF range = "64" THEN "4" ELSE IF range = "128" THEN "3"
    ELSE IF range = "256" THEN "2" ELSE "1"

\* a doppler id that is given the range suffix as well
dopplerIdSuffixed(dopplerProductId, range) == dopplerProductId \o <<rangeSuffix(range)>>

\* line 92: return dopplerProductId
dopplerId(dopplerProductId, range) == dopplerProductId

\* a fallback that is not reported
fallbackSilent(baseId) == [mode |-> "rain", warnings |-> 0]

\* lines 88-90: console.warn(...) and mode = 'rain'
fallback(baseId) == [mode |-> "rain", warnings |-> 1]

\* lines 80-104; value is the string returned, warnings the number of
\* console.warn calls made
buildProductId(baseId, mode, range, dopplerProductId) ==
    IF mode = "doppler" /\ ~Falsy(dopplerProductId)
    THEN [value |-> dopplerId(dopplerProductId.s, range), warnings |-> 0]
    ELSE LET fellBack == IF mode = "doppler"
                         THEN fallback(baseId)
                         ELSE [mode |-> mode, warnings |-> 0]
         IN  [value |-> <<"I", "D", "R">> \o baseId \o <<rangeSuffix(range)>>,
              warnings |-> fellBack.warnings]

BuildProductIdReturns ==
    /\ call.fn = "buildProductId"
    /\ ~ret.done
    /\ LET r == buildProductId(call.args[1], call.args[2], call.args[3], call.args[4])
       IN  ret' = Returned(r.value, r.warnings)
    /\ UNCHANGED <<call, weatherVars, radarVars, viewerVars, appVars>>

BaseIds == { <<"6", "6">>, <<"0", "2">>, <<"2">>, <<"0", "7", "1">>, <<>> }
RadarModes == { "rain", "doppler" }
RadarRanges == { "64", "128", "256", "512" }
DopplerProductIds ==
    { Absent, Str(<<>>), Str(<<"I", "D", "R", "6", "6", "I">>), Str(<<"I", "D", "R", "0", "2", "I">>) }

ProductIdInit ==
    /\ call \in { [fn |-> "buildProductId", args |-> <<baseId, mode, range, id>>] :
                    baseId \in BaseIds, mode \in RadarModes,
                    range \in RadarRanges, id \in DopplerProductIds }
    /\ ret = Pending
    /\ ServerInit
    /\ ViewerInit
    /\ AppInit

ProductIdNext == BuildProductIdReturns

ProductIdSpec == ProductIdInit /\ [][ProductIdNext]_vars

(***************************************************************************)
(* calculateDistance and findNearestRadars (src/utils/geolocation.ts).     *)
(* Coordinates are whole degrees and the points lie on one meridian: with  *)
(* dLng = 0 the haversine term a is sin^2(dLat/2), c is |dLat| in radians  *)
(* and the distance is 6371 * pi / 180 = 111.195 km per degree of          *)
(* latitude, rounded by Math.round.                                        *)
(***************************************************************************)
Abs(x) == IF x < 0 THEN -x ELSE x

MetresPerDegree == 111195

calculateDistance(lat1, lng1, lat2, lng2) ==
    (MetresPerDegree * Abs(lat2 - lat1) + 500) \div 1000

\* radarsWithDistance.sort((a, b) => a.distance - b.distance): the sort is
\* stable, so x goes behind the elements that are not farther than it
RECURSIVE InsertByDistance(_, _)
InsertByDistance(sorted, x) ==
    IF sorted = <<>> THEN <<x>>
    ELSE IF Head(sorted).distance - x.distance <= 0
    THEN <<Head(sorted)>> \o InsertByDistance(Tail(sorted), x)
    ELSE <<x>> \o sorted

RECURSIVE SortByDistance(_)
SortByDistance(radars) ==
    IF radars = <<>> THEN <<>>
    ELSE InsertByDistance(SortByDistance(SubSeq(radars, 1, Len(radars) - 1)),
                          radars[Len(radars)])

\* limit is Null (omitted) or Some(n)
findNearestRadars(userLat, userLng, radars, limit) ==
    LET radarsWithDistance ==
            [i \in 1..Len(radars) |->
                ("distance" :> calculateDistance(userLat, userLng, radars[i].lat, radars[i].lng))
                    @@ radars[i]]
        sorted == SortByDistance(radarsWithDistance)
        truthy == limit # Null /\ limit[1] # 0
    IN  IF truthy
        THEN SubSeq(sorted, 1, IF limit[1] < Len(sorted) THEN limit[1] ELSE Len(sorted))
        ELSE sorted

FindNearestRadarsReturns ==
    /\ call.fn = "findNearestRadars"
    /\ ~ret.done
    /\ ret' = Returned(findNearestRadars(call.args[1], call.args[2], call.args[3], call.args[4]), 0)
    /\ UNCHANGED <<call, weatherVars, radarVars, viewerVars, appVars>>

MaxStations == 3

Meridian == 153

RadarLocations ==
    { [id |-> "66", name |-> "Brisbane", lat |-> -28, lng |-> Meridian],
      [id |-> "50", name |-> "Grafton", lat |-> -30, lng |-> Meridian],
      [id |-> "71", name |-> "Sydney", lat |-> -34, lng |-> Meridian],
      [id |-> "08", name |-> "Gympie", lat |-> -26, lng |-> Meridian] }

StationLists == UNION { [1..n -> RadarLocations] : n \in 0..MaxStations }
UserLatitudes == { -27, -34 }
Limits == { Null } \cup { Some(n) : n \in 0..(MaxStations + 1) }

NearestInit ==
    /\ call \in { [fn |-> "findNearestRadars", args |-> <<userLat, Meridian, radars, limit>>] :
                    userLat \in UserLatitudes, radars \in StationLists, limit \in Limits }
    /\ ret = Pending
    /\ ServerInit
    /\ ViewerInit
    /\ AppInit

NearestNext == FindNearestRadarsReturns

NearestSpec == NearestInit /\ [][NearestNext]_vars

(***************************************************************************)
(* formatTime (src/utils/weatherApi.ts).  A Date is its time of day in     *)
(* minutes (UTC), or invalid; the runtime's time zone is an offset in      *)
(* minutes chosen with the call.                                           *)
(***************************************************************************)
InvalidDate == [nan |-> TRUE, minutes |-> 0]

\* the two digits of s at i, as a number; -1 when they are not digits
TwoDigitsAt(s, i) ==
    IF s[i] \in Digits /\ s[i + 1] \in Digits
    THEN DigitVal(s[i]) * 10 + DigitVal(s[i + 1])
    ELSE -1

\* new Date(isoString) for the date-time form YYYY-MM-DDTHH:mm:ssZ; any
\* other text here holds no number and is no date either
NewDate(isoString) ==
    IF /\ Len(isoString) = 20
       /\ \A i \in 1..4 : isoString[i] \in Digits
       /\ <<isoString[5], isoString[8], isoString[11], isoString[14], isoString[17], isoString[20]>>
              = <<"-", "-", "T", ":", ":", "Z">>
       /\ TwoDigitsAt(isoString, 6) \in 1..12
       /\ TwoDigitsAt(isoString, 9) \in 1..31
       /\ TwoDigitsAt(isoString, 12) \in 0..23
       /\ TwoDigitsAt(isoString, 15) \in 0..59
       /\ TwoDigitsAt(isoString, 18) \in 0..59
    THEN [nan |-> FALSE,
          minutes |-> TwoDigitsAt(isoString, 12) * 60 + TwoDigitsAt(isoString, 15)]
    ELSE InvalidDate

DigitChars == <<"0", "1", "2", "3", "4", "5", "6", "7", "8", "9">>
TwoDigits(n) == <<DigitChars[(n \div 10) + 1], DigitChars[(n % 10) + 1]>>

\* date.toLocaleTimeString('en-AU', {hour: '2-digit', minute: '2-digit',
\* hour12: true}) in a zone offset minutes ahead of UTC: 'Invalid Date' for
\* an invalid date, nothing thrown
toLocaleTimeString(date, offset) ==
    IF date.nan THEN <<"I", "n", "v", "a", "l", "i", "d", " ", "D", "a", "t", "e">>
    ELSE LET local == (date.minutes + offset) % (24 * 60)
             hour == local \div 60
             hour12 == IF hour % 12 = 0 THEN 12 ELSE hour % 12
         IN  TwoDigits(hour12) \o <<":">> \o TwoDigits(local % 60) \o <<" ">>
                 \o (IF hour < 12 THEN <<"a", "m">> ELSE <<"p", "m">>)

Dashes == <<"-", "-">>

\* lines 48-61
formatTime(isoString, offset) ==
    IF Falsy(isoString) THEN Dashes
    ELSE toLocaleTimeString(NewDate(isoString.s), offset)

FormatTimeReturns ==
    /\ call.fn = "formatTime"
    /\ ~ret.done
    /\ ret' = Returned(formatTime(call.args[1], call.zone), 0)
    /\ UNCHANGED <<call, weatherVars, radarVars, viewerVars, appVars>>

IsoDay == <<"2", "0", "2", "5", "-", "1", "2", "-", "0", "4">>
IsoHours == { <<"0", "0">>, <<"0", "9">>, <<"1", "2">>, <<"1", "4">>, <<"2", "3">>, <<"2", "5">> }
IsoMinutes == { <<"0", "0">>, <<"0", "5">>, <<"3", "0">>, <<"5", "9">>, <<"6", "0">> }

IsoStrings ==
    { Absent, Str(<<>>), Str(<<"i", "n", "v", "a", "l", "i", "d", " ", "d", "a", "t", "e">>), Str(<<"n", "o", "t", " ", "a", " ", "d", "a", "t", "e">>) }
    \cup { Str(IsoDay \o <<"T">> \o hh \o <<":">> \o mm \o <<":", "0", "0", "Z">>) :
             hh \in IsoHours, mm \in IsoMinutes }

\* UTC, Brisbane (+10:00), Adelaide (+9:30)
ZoneOffsets == { 0, 10 * 60, 9 * 60 + 30 }

FormatTimeInit ==
    /\ call \in { [fn |-> "formatTime", args |-> <<isoString>>, zone |-> offset] :
                    isoString \in IsoStrings, offset \in ZoneOffsets }
    /\ ret = Pending
    /\ ServerInit
    /\ ViewerInit
    /\ AppInit

FormatTimeNext == FormatTimeReturns

FormatTimeSpec == FormatTimeInit /\ [][FormatTimeNext]_vars

(***************************************************************************)
(* RadarViewer (src/components/RadarViewer.tsx): the refresh effect and    *)
(* loadImages.  The parent passes the mode and the range; the base id and  *)
(* the doppler product id are those of the selected radar.  A load is a    *)
(* call of fetchRadarImages that loadImages awaits; live says whether the  *)
(* component instance that issued it is still mounted.                     *)
(***************************************************************************)
MaxLoads == 2

POLL_INTERVAL == 5 * 60 * 1000

SelectedBaseId == <<"6", "6">>
SelectedDopplerProductId == Str(<<"I", "D", "R", "6", "6", "I">>)

\* line 40
currentProductId(v) ==
    buildProductId(SelectedBaseId, v.mode, v.range, SelectedDopplerProductId).value

LoadFailed == "Failed to load radar data. Please try again later."

\* lines 44-46: the start of loadImages, onError being the parent's setRadarError
Loading(v) == [v EXCEPT !.isLoading = TRUE, !.error = Null, !.radarError = Null]

\* setInterval(loadImages, 5 * 60 * 1000), loadImages being that of productId
setInterval(ts, productId) == Append(ts, [productId |-> productId, period |-> POLL_INTERVAL])

RemoveAt(seq, i) == SubSeq(seq, 1, i - 1) \o SubSeq(seq, i + 1, Len(seq))

\* a cleanup that leaves the interval running
clearIntervalForgotten(ts, i) == ts

\* clearInterval(interval)
clearInterval(ts, i) == RemoveAt(ts, i)

\* the component is rendered for the first time: useState, then the effect
\* of lines 61-71 runs loadImages and sets the interval
Mount(mode, range) ==
    /\ ~viewer.mounted
    /\ Len(loads) < MaxLoads
    /\ LET v == [Unmounted EXCEPT !.mounted = TRUE, !.mode = mode, !.range = range]
       IN  /\ viewer' = Loading(v)
           /\ loads' = Append(loads, [productId |-> currentProductId(v), live |-> TRUE])
           /\ timers' = setInterval(timers, currentProductId(v))
    /\ viewerLog' = [event |-> "mount", before |-> loads, live |-> TRUE, index |-> 0]
    /\ UNCHANGED <<weatherVars, radarVars, call, ret, appVars>>

\* the parent renders the component with another mode or range: when the
\* product id changes, loadImages changes and the effect is cleaned up and
\* run again
PropsChange(mode, range) ==
    /\ viewer.mounted
    /\ <<mode, range>> # <<viewer.mode, viewer.range>>
    /\ LET v == [viewer EXCEPT !.mode = mode, !.range = range]
       IN  IF currentProductId(v) = currentProductId(viewer)
           THEN /\ viewer' = v
                /\ UNCHANGED <<loads, timers>>
           ELSE /\ Len(loads) < MaxLoads
                /\ viewer' = Loading(v)
                /\ loads' = Append(loads, [productId |-> currentProductId(v), live |-> TRUE])
                /\ timers' = setInterval(clearInterval(timers, Len(timers)), currentProductId(v))
    /\ viewerLog' = [event |-> "props", before |-> loads, live |-> TRUE,
                     index |-> viewer.currentIndex]
    /\ UNCHANGED <<weatherVars, radarVars, call, ret, appVars>>

\* an interval that is set fires: loadImages up to its await
RefreshTick ==
    /\ Len(loads) < MaxLoads
    /\ viewer' = IF viewer.mounted THEN Loading(viewer) ELSE [viewer EXCEPT !.radarError = Null]
    /\ \E i \in DOMAIN timers :
           loads' = Append(loads, [productId |-> timers[i].productId, live |-> viewer.mounted])
    /\ viewerLog' = [event |-> "tick", before |-> loads, live |-> viewer.mounted,
                     index |-> viewer.currentIndex]
    /\ UNCHANGED <<timers, weatherVars, radarVars, call, ret, appVars>>

\* lines 92-97 and 242-246: the Latest button, which is rendered with the
\* images and disabled on the last frame
handleLatest ==
    /\ viewer.mounted
    /\ ~viewer.isLoading /\ viewer.error = Null /\ viewer.images # <<>>
    /\ ~(Len(viewer.images) <= 1 \/ viewer.currentIndex = Len(viewer.images) - 1)
    /\ Len(loads) < MaxLoads
    /\ viewer' = [Loading(viewer) EXCEPT !.isPlaying = FALSE, !.animation = Null]
    /\ loads' = Append(loads, [productId |-> currentProductId(viewer), live |-> TRUE])
    /\ viewerLog' = [event |-> "latest", before |-> loads, live |-> TRUE,
                     index |-> viewer.currentIndex]
    /\ UNCHANGED <<timers, weatherVars, radarVars, call, ret, appVars>>

\* what fetchRadarImages(productId) resolves to: the frames of that product
RadarImages(productId, frames) ==
    [k \in 1..Len(frames) |-> [productId |-> productId, frame |-> frames[k]]]

\* lines 49-50 and 57: setImages, setCurrentIndex, setIsLoading
Loaded(v, radarImages) ==
    [v EXCEPT !.images = radarImages, !.currentIndex = Len(radarImages) - 1,
              !.isLoading = FALSE]

\* lines 48-58: the awaited fetchRadarImages call i returns images or throws;
\* the state of an instance that was unmounted is not updated, the parent's is
LoadSettles(i, outcome) ==
    /\ i \in 1..Len(loads)
    /\ loads' = RemoveAt(loads, i)
    /\ viewer' =
         IF outcome.ok
         THEN IF loads[i].live
              THEN Loaded(viewer, RadarImages(loads[i].productId, outcome.images))
              ELSE viewer
         ELSE IF loads[i].live
              THEN [viewer EXCEPT !.error = Some(LoadFailed), !.radarError = Some(LoadFailed),
                                  !.isLoading = FALSE]
              ELSE [viewer EXCEPT !.radarError = Some(LoadFailed)]
    /\ viewerLog' = [event |-> IF outcome.ok THEN "loaded" ELSE "failed", before |-> loads,
                     live |-> loads[i].live, index |-> viewer.currentIndex]
    /\ UNCHANGED <<timers, weatherVars, radarVars, call, ret, appVars>>

\* the component is removed: the cleanups of lines 68-70 and 81
Unmount ==
    /\ viewer.mounted
    /\ viewer' = [viewer EXCEPT !.mounted = FALSE, !.animation = Null]
    /\ timers' = clearInterval(timers, Len(timers))
    /\ loads' = [i \in 1..Len(loads) |-> [loads[i] EXCEPT !.live = FALSE]]
    /\ viewerLog' = [event |-> "unmount", before |-> loads, live |-> FALSE,
                     index |-> viewer.currentIndex]
    /\ UNCHANGED <<weatherVars, radarVars, call, ret, appVars>>

\* lines 74-81: the interval that the animation effect sets for the state
\* of a render
animationInterval(v) ==
    IF ~v.isPlaying \/ Len(v.images) = 0 THEN Null ELSE Some(Len(v.images))

\* lines 73-82: the animation effect runs after a render in which isPlaying
\* or images.length has changed: its cleanup clears the interval and a new
\* one is set.  After a click React runs the effect with the render (see
\* handlePlayPause and handleLatest); after a load that settles it runs
\* later, as this step
AnimationEffect ==
    /\ viewer.mounted
    /\ viewer.animation # animationInterval(viewer)
    /\ viewer' = [viewer EXCEPT !.animation = animationInterval(viewer)]
    /\ viewerLog' = [event |-> "effect", before |-> loads, live |-> TRUE,
                     index |-> viewer.currentIndex]
    /\ UNCHANGED <<timers, loads, weatherVars, radarVars, call, ret, appVars>>

\* lines 77-79: the animation interval fires; images.length is the one of
\* the render whose effect set the interval
AnimationTick ==
    /\ viewer.mounted
    /\ viewer.animation # Null
    /\ viewer' = [viewer EXCEPT !.currentIndex = (@ + 1) % viewer.animation[1]]
    /\ viewerLog' = [event |-> "frame", before |-> loads, live |-> TRUE,
                     index |-> viewer.currentIndex]
    /\ UNCHANGED <<timers, loads, weatherVars, radarVars, call, ret, appVars>>

\* the playback controls are rendered with the images only; Prev and Next
\* are disabled when there is one frame
ControlsShown ==
    /\ viewer.mounted
    /\ ~viewer.isLoading /\ viewer.error = Null /\ viewer.images # <<>>

\* lines 84-86 and 219-223
handlePrevious ==
    /\ ControlsShown
    /\ ~(Len(viewer.images) <= 1)
    /\ viewer' = [viewer EXCEPT
                    !.currentIndex = (@ - 1 + Len(viewer.images)) % Len(viewer.images)]
    /\ viewerLog' = [event |-> "prev", before |-> loads, live |-> TRUE,
                     index |-> viewer.currentIndex]
    /\ UNCHANGED <<timers, loads, weatherVars, radarVars, call, ret, appVars>>

\* lines 88-90 and 234-238
handleNext ==
    /\ ControlsShown
    /\ ~(Len(viewer.images) <= 1)
    /\ viewer' = [viewer EXCEPT !.currentIndex = (@ + 1) % Len(viewer.images)]
    /\ viewerLog' = [event |-> "next", before |-> loads, live |-> TRUE,
                     index |-> viewer.currentIndex]
    /\ UNCHANGED <<timers, loads, weatherVars, radarVars, call, ret, appVars>>

\* lines 227-229: the Play/Pause button
handlePlayPause ==
    /\ ControlsShown
    /\ viewer' = LET v == [viewer EXCEPT !.isPlaying = ~@]
                 IN  [v EXCEPT !.animation = animationInterval(v)]
    /\ viewerLog' = [event |-> "play", before |-> loads, live |-> TRUE,
                     index |-> viewer.currentIndex]
    /\ UNCHANGED <<timers, loads, weatherVars, radarVars, call, ret, appVars>>

ViewerRanges == { "128", "256" }

LoadOutcomes ==
    { [ok |-> FALSE, images |-> <<>>],
      [ok |-> TRUE, images |-> <<"frame1">>],
      [ok |-> TRUE, images |-> <<"frame1", "frame2">>] }

ViewerNext ==
    \/ \E mode \in RadarModes, range \in ViewerRanges : Mount(mode, range)
    \/ \E mode \in RadarModes, range \in ViewerRanges : PropsChange(mode, range)
    \/ RefreshTick
    \/ handleLatest
    \/ \E i \in 1..MaxLoads, outcome \in LoadOutcomes : LoadSettles(i, outcome)
    \/ AnimationEffect
    \/ AnimationTick
    \/ handlePrevious
    \/ handleNext
    \/ handlePlayPause
    \/ Unmount

ViewerSpec == Init /\ [][ViewerNext]_vars

(***************************************************************************)
(* getCurrentPosition (src/utils/geolocation.ts).  The browser either has  *)
(* no navigator.geolocation, or it calls the success callback with a       *)
(* position, or the error callback with a code and a message.  A rejected  *)
(* promise is a call that threw; its value is the message of the Error.    *)
(***************************************************************************)
Rejected(message) ==
    [done |-> TRUE, value |-> Some(message), threw |-> TRUE, warnings |-> 0]

GeolocationErrorPrefix == <<"G", "e", "o", "l", "o", "c", "a", "t", "i", "o", "n", " ", "e", "r", "r", "o", "r", ":", " ">>

\* lines 518-520: the error callback
positionError(error) == GeolocationErrorPrefix \o error.message

\* lines 503-527; browser is what navigator.geolocation does
getCurrentPosition(browser) ==
    IF ~browser.supported
    THEN Rejected(<<"G", "e", "o", "l", "o", "c", "a", "t", "i", "o", "n", " ", "i", "s", " ", "n", "o", "t", " ", "s", "u", "p", "p", "o", "r", "t", "e", "d", " ", "b", "y", " ", "y", "o", "u", "r", " ", "b", "r", "o", "w", "s", "e", "r">>)
    ELSE IF browser.ok
    THEN Returned([lat |-> browser.latitude, lng |-> browser.longitude], 0)
    ELSE Rejected(positionError([code |-> browser.code, message |-> browser.message]))

GetCurrentPositionSettles ==
    /\ call.fn = "getCurrentPosition"
    /\ ~ret.done
    /\ ret' = getCurrentPosition(call.browser)
    /\ UNCHANGED <<call, weatherVars, radarVars, viewerVars, appVars>>

Position(latitude, longitude) ==
    [ok |-> TRUE, latitude |-> latitude, longitude |-> longitude, code |-> 0, message |-> <<>>]
PositionError(code, message) ==
    [ok |-> FALSE, latitude |-> 0, longitude |-> 0, code |-> code, message |-> message]

\* PERMISSION_DENIED, POSITION_UNAVAILABLE, TIMEOUT, and codes that are none of them
PositionErrorCodes == { 1, 2, 3, 0, 999 }
PositionErrorMessages == { <<>>, <<"U", "s", "e", "r", " ", "d", "e", "n", "i", "e", "d", " ", "g", "e", "o", "l", "o", "c", "a", "t", "i", "o", "n">>, <<"T", "i", "m", "e", "o", "u", "t">>, <<"L", "o", "c", "a", "t", "i", "o", "n", " ", "a", "c", "c", "e", "s", "s", " ", "d", "e", "n", "i", "e", "d">> }

GeolocationOutcomes ==
    { Position(latitude, longitude) : latitude \in { -27, -34, 0, 51 }, longitude \in { 153, -1 } }
    \cup { PositionError(code, message) :
             code \in PositionErrorCodes, message \in PositionErrorMessages }

Browsers ==
    { [supported |-> supported] @@ outcome :
        supported \in BOOLEAN, outcome \in GeolocationOutcomes }

PositionInit ==
    /\ call \in { [fn |-> "getCurrentPosition", args |-> <<>>, browser |-> browser] :
                    browser \in Browsers }
    /\ ret = Pending
    /\ ServerInit
    /\ ViewerInit
    /\ AppInit

PositionNext == GetCurrentPositionSettles

PositionSpec == PositionInit /\ [][PositionNext]_vars

(***************************************************************************)
(* RadarApp (src/App.tsx): the radar, the range and the mode.  A state     *)
(* update renders the component and leaves its effects to run (pc =        *)
(* "effects"); RunEffects runs them, and the state is stable when none is  *)
(* left.  localStorage holds the saved radar; the URL holds the radar id,  *)
(* which navigate() rewrites once a radar is selected.                     *)
(***************************************************************************)
radarLocations ==
    << [productId |-> "IDR663", baseId |-> "66", name |-> "Brisbane", hasDoppler |-> TRUE,
        lat |-> -28, lng |-> Meridian],
       [productId |-> "IDR283", baseId |-> "28", name |-> "Grafton", hasDoppler |-> FALSE,
        lat |-> -30, lng |-> Meridian] >>

\* radarLocations.find(r => r.productId === productId): Null when undefined
FindRadar(productId) ==
    LET hits == { i \in 1..Len(radarLocations) : radarLocations[i].productId = productId }
    IN  IF hits = {} THEN Null
        ELSE Some(radarLocations[CHOOSE i \in hits : \A j \in hits : i <= j])

RangeValues == { "64", "128", "256", "512" }

\* lines 24-37: id is params.radarId, saved is localStorage's selectedRadar
InitialRadar(id, saved) ==
    IF id # Null /\ id[1] # "" /\ FindRadar(id[1]) # Null THEN FindRadar(id[1])
    ELSE IF saved # Null /\ saved[1] # "" /\ FindRadar(saved[1]) # Null THEN FindRadar(saved[1])
    ELSE Null

\* lines 57-68
InitialRange(range, saved) ==
    IF range # Null /\ range[1] \in RangeValues THEN range[1]
    ELSE IF saved # Null /\ saved[1] \in RangeValues THEN saved[1]
    ELSE "128"

\* lines 90-98
InitialMode(mode, saved) ==
    IF mode # Null /\ mode[1] \in {"doppler", "rain"} THEN mode[1]
    ELSE IF saved = Some("doppler") THEN "doppler" ELSE "rain"

Event(name, range) == [name |-> name, range |-> range, modeBefore |-> app.radarMode]

\* the page is opened at /radar/:radarId?/:range?/:mode? and RadarApp is
\* rendered for the first time
Open(radarId, range, mode, savedRadar, savedRange, savedMode) ==
    /\ app.pc = "closed"
    /\ app' = [Closed EXCEPT !.pc = "mounting", !.radarId = radarId, !.saved = savedRadar,
                             !.selectedRadar = InitialRadar(radarId, savedRadar),
                             !.selectedRange = InitialRange(range, savedRange),
                             !.radarMode = InitialMode(mode, savedMode),
                             !.event = Event("open", "")]
    /\ UNCHANGED <<weatherVars, radarVars, clientVars, mock>>

\* an effect that leaves the mode alone
autoSwitchNever(selectedRadar, radarMode) == FALSE

\* lines 142-143: the condition of the auto-switch effect
autoSwitch(selectedRadar, radarMode) ==
    selectedRadar # Null /\ radarMode = "doppler" /\ ~selectedRadar[1].hasDoppler

\* lines 155-162: whether initializeLocationFromIP goes on to fetch
lookupSkipped(radarId, savedRadar) ==
    \/ radarId # Null /\ radarId[1] # ""
    \/ savedRadar # Null /\ savedRadar[1] # ""

\* the effects of lines 113-207 after a render: the selected radar is saved
\* and put in the URL, the mode is switched, and after the first render the
\* IP lookup is started
RunEffects ==
    /\ app.pc \in {"mounting", "effects"}
    /\ LET saved == IF app.selectedRadar # Null
                    THEN Some(app.selectedRadar[1].productId) ELSE app.saved
           radarId == IF app.selectedRadar # Null
                      THEN Some(app.selectedRadar[1].productId) ELSE app.radarId
           switch == autoSwitch(app.selectedRadar, app.radarMode)
           fetches == app.pc = "mounting" /\ ~lookupSkipped(app.radarId, saved)
       IN  app' = [app EXCEPT !.saved = saved, !.radarId = radarId,
                              !.radarMode = IF switch THEN "rain" ELSE @,
                              !.ip = IF fetches THEN "pending" ELSE @,
                              !.pc = IF switch THEN "effects" ELSE "stable",
                              !.event = Event("effects", "")]
    /\ UNCHANGED <<weatherVars, radarVars, clientVars, mock>>

\* what https://ipapi.co/json/ does: fetch rejects, a non-success status, a
\* body that does not parse, or a body whose latitude and longitude are
\* Null (missing) or numbers
IpReject == [kind |-> "reject", latitude |-> Null, longitude |-> Null]
IpNotOk == [kind |-> "notok", latitude |-> Null, longitude |-> Null]
IpBadJson == [kind |-> "badjson", latitude |-> Null, longitude |-> Null]
IpOk(latitude, longitude) == [kind |-> "ok", latitude |-> latitude, longitude |-> longitude]

\* data.latitude && data.longitude
HasCoordinates(data) ==
    /\ data.latitude # Null /\ data.latitude[1] # 0
    /\ data.longitude # Null /\ data.longitude[1] # 0

\* lines 164-203: the radar that initializeLocationFromIP selects
radarFromIP(response) ==
    IF response.kind = "ok" /\ HasCoordinates(response)
    THEN LET nearest == findNearestRadars(response.latitude[1], response.longitude[1],
                                          radarLocations, Some(1))
         IN  IF Len(nearest) > 0 THEN nearest[1] ELSE radarLocations[1]
    ELSE radarLocations[1]

\* the fetch of the IP lookup settles and the rest of
\* initializeLocationFromIP runs
IpLookupSettles(response) ==
    /\ app.ip = "pending"
    /\ app' = [app EXCEPT !.ip = "idle", !.selectedRadar = Some(radarFromIP(response)),
                          !.pc = "effects", !.event = Event("ip", "")]
    /\ UNCHANGED <<weatherVars, radarVars, clientVars, mock>>

\* lines 373-379: the radar dropdown
SelectRadar(productId) ==
    /\ app.pc = "stable"
    /\ FindRadar(productId) # Null
    /\ app' = [app EXCEPT !.selectedRadar = FindRadar(productId), !.pc = "effects",
                          !.event = Event("select", "")]
    /\ UNCHANGED <<weatherVars, radarVars, clientVars, mock>>

\* RadarControlBar, rendered by RadarViewer when a radar is selected: a
\* range button; onModeChange is setRadarMode, onRangeChange is setSelectedRange
handleRangeClick(range) ==
    /\ app.pc = "stable"
    /\ app.selectedRadar # Null
    /\ app' = [app EXCEPT !.radarMode = IF app.radarMode = "doppler" THEN "rain" ELSE @,
                          !.selectedRange = range,
                          !.pc = "effects", !.event = Event("range", range)]
    /\ UNCHANGED <<weatherVars, radarVars, clientVars, mock>>

\* RadarControlBar: the Doppler button, rendered when hasDoppler
handleDopplerClick ==
    /\ app.pc = "stable"
    /\ app.selectedRadar # Null
    /\ app.selectedRadar[1].hasDoppler
    /\ app' = [app EXCEPT !.radarMode = "doppler", !.pc = "effects",
                          !.event = Event("doppler", "")]
    /\ UNCHANGED <<weatherVars, radarVars, clientVars, mock>>

UrlRadarIds == { Null, Some("IDR663"), Some("IDR283"), Some("IDR000") }
UrlRanges == { Null, Some("256"), Some("1") }
UrlModes == { Null, Some("doppler"), Some("rain"), Some("wind") }
SavedRadarIds == { Null, Some("IDR663"), Some("IDR283"), Some("IDR999") }
SavedRanges == { Null, Some("64") }
SavedModes == { Null, Some("doppler") }

IpResponses ==
    { IpReject, IpNotOk, IpBadJson, IpOk(Null, Null), IpOk(Some(0), Some(Meridian)),
      IpOk(Some(-27), Some(Meridian)), IpOk(Some(-31), Some(Meridian)) }

AppNext ==
    \/ \E radarId \in UrlRadarIds, range \in UrlRanges, mode \in UrlModes,
          savedRadar \in SavedRadarIds, savedRange \in SavedRanges, savedMode \in SavedModes :
            Open(radarId, range, mode, savedRadar, savedRange, savedMode)
    \/ RunEffects
    \/ \E response \in IpResponses : IpLookupSettles(response)
    \/ \E productId \in {"IDR663", "IDR283"} : SelectRadar(productId)
    \/ \E range \in RangeValues : handleRangeClick(range)
    \/ handleDopplerClick

AppSpec == Init /\ [][AppNext]_vars

(***************************************************************************)
(* The Express app that the backend test file builds for itself            *)
(* (server/index.test.js): GET /api/weather written out again, with the    *)
(* fetches inline.  To compare it with server/index.js it is given each    *)
(* exchange of that server in turn: the query of the request that res      *)
(* answers, at the same clock value, and for each upstream call the        *)
(* response that the server got (any response where the server made no     *)
(* such call).                                                             *)
(***************************************************************************)
\* res.status(status).json({error, message}) or res.json(data) of the test app
MockResponds(status, error, message, data) ==
    [mock EXCEPT !.pc = "idle", !.of = res, !.location = Null, !.obs = Null, !.fc = Null,
                 !.res = [status |-> status, error |-> error, message |-> message,
                          data |-> data]]

\* lines 72-94 and 97-98: validation, cache check, and the location fetch up
\* to its await
TestWeatherRequest ==
    /\ mock.pc = "idle"
    /\ mock.of # res
    /\ LET lat == res.lat
           lng == res.lng
           latitude == parseFloat(lat.s)
           longitude == parseFloat(lng.s)
           key == cacheKey(latitude, longitude)
           cached == IF key \in DOMAIN mock.cache THEN Some(mock.cache[key]) ELSE Null
       IN  IF Falsy(lat) \/ Falsy(lng)
           THEN mock' = MockResponds(400, "Missing required parameters: lat and lng", "", Null)
           ELSE IF isNaN(latitude) \/ isNaN(longitude)
           THEN mock' = MockResponds(400, "Invalid coordinates: lat and lng must be numbers",
                                     "", Null)
           ELSE IF CacheHit(cached)
           THEN mock' = MockResponds(200, "", "", Some(cached[1].data))
           ELSE mock' = [mock EXCEPT !.pc = "geocode", !.lat = lat, !.lng = lng]
    /\ UNCHANGED <<weatherVars, radarVars, clientVars, app>>

\* lines 98-113: the location fetch settles; on a first candidate both
\* fetches of Promise.all are issued
TestGeocodeSettles(g) ==
    /\ mock.pc = "geocode"
    /\ res.geo # Null => g = res.geo[1]
    /\ mock' =
         CASE g.kind = "reject" -> MockResponds(500, "Failed to fetch weather data", g.text, Null)
           [] g.kind = "notok" ->
                MockResponds(500, "Failed to fetch weather data",
                             "BoM location API error: " \o g.text, Null)
           [] g.kind = "badjson" ->
                MockResponds(500, "Failed to fetch weather data", g.text, Null)
           [] g.kind = "ok" ->
                IF ~g.hasData \/ Len(g.data) = 0
                THEN MockResponds(404, "Could not find location data for these coordinates",
                                  "", Null)
                ELSE [mock EXCEPT !.pc = "fanout", !.location = Some(g.data[1])]
    /\ UNCHANGED <<weatherVars, radarVars, clientVars, app>>

\* line 120: obsResponse.ok ? (await obsResponse.json()).data : null
testObservations(o) ==
    CASE o.kind = "notok" -> Returns(Null)
      [] o.kind = "badjson" -> Throws(o.text)
      [] o.kind = "ok" -> IF o.hasData THEN Returns(Some(o.data[1])) ELSE Returns(Null)

\* lines 121-125
testForecast(f) ==
    CASE f.kind = "notok" -> Returns(Null)
      [] f.kind = "badjson" -> Throws(f.text)
      [] f.kind = "ok" ->
            IF f.hasData /\ Len(f.data) > 0
            THEN Returns(Some([today |-> f.data[1], daily |-> f.data]))
            ELSE Returns(Null)

\* lines 120-144: both fetches fulfilled; m is the handler with both responses
TestAssemble(m) ==
    LET latitude == parseFloat(m.lat.s)
        longitude == parseFloat(m.lng.s)
        key == cacheKey(latitude, longitude)
        location == m.location[1]
        observations == testObservations(m.obs[1])
        forecast == testForecast(m.fc[1])
        weatherData ==
            [location |-> [name |-> location.name, state |-> location.state,
                           geohash |-> location.geohash,
                           lat |-> latitude, lng |-> longitude],
             observations |-> observations.value,
             forecast |-> forecast.value]
    IN  IF observations.threw
        THEN MockResponds(500, "Failed to fetch weather data", observations.message, Null)
        ELSE IF forecast.threw
        THEN MockResponds(500, "Failed to fetch weather data", forecast.message, Null)
        ELSE [MockResponds(200, "", "", Some(weatherData)) EXCEPT
                !.cache = CacheSet(mock.cache, key, [data |-> weatherData, timestamp |-> now])]

\* lines 115-118 and 145-150: one fetch of Promise.all settles; m is the
\* handler with its response r
TestFetchSettled(m, r) ==
    IF r.kind = "reject"
    THEN MockResponds(500, "Failed to fetch weather data", r.text, Null)
    ELSE IF m.obs # Null /\ m.fc # Null
    THEN TestAssemble(m)
    ELSE m

\* line 116
TestObservationsSettles(o) ==
    /\ mock.pc = "fanout"
    /\ mock.obs = Null
    /\ res.obs # Null => o = res.obs[1]
    /\ mock' = TestFetchSettled([mock EXCEPT !.obs = Some(o)], o)
    /\ UNCHANGED <<weatherVars, radarVars, clientVars, app>>

\* line 117
TestForecastSettles(f) ==
    /\ mock.pc = "fanout"
    /\ mock.fc = Null
    /\ res.fc # Null => f = res.fc[1]
    /\ mock' = TestFetchSettled([mock EXCEPT !.fc = Some(f)], f)
    /\ UNCHANGED <<weatherVars, radarVars, clientVars, app>>

\* a request is sent to server/index.js once the test app has answered the
\* one before
SupertestRequest(lat, lng) ==
    /\ mock.pc = "idle"
    /\ mock.of = res
    /\ WeatherRequest(1, lat, lng)

\* time passes between two requests
BetweenRequests(t) ==
    /\ mock.pc = "idle"
    /\ mock.of = res
    /\ req[1].pc = "idle"
    /\ Tick(t)

\* the upstream responses of the comparison: a failure, a degraded and a
\* complete answer of each endpoint, and a first candidate without geohash
EquivalenceGeoResponses ==
    { NotOk("Service Unavailable"), OkData(<<>>), OkData(<<NoGeohash, Sydney>>),
      OkData(<<Brisbane, Sydney>>) }
EquivalenceObsResponses == { Reject("Network error"), NotOk("Bad Gateway"), OkData(<<"temp25">>) }
EquivalenceForecastResponses == { Reject("Network error"), OkData(<<>>), OkData(<<"day1">>) }

EquivalenceNext ==
    \/ \E lat \in {Str(<<"1">>), Str(<<"a">>)} : SupertestRequest(lat, Str(<<"3">>))
    \/ \E g \in EquivalenceGeoResponses : GeocodeSettles(1, g)
    \/ \E o \in EquivalenceObsResponses : ObservationsSettles(1, o)
    \/ \E f \in EquivalenceForecastResponses : ForecastSettles(1, f)
    \/ \E t \in {CACHE_DURATION} : BetweenRequests(t)
    \/ TestWeatherRequest
    \/ \E g \in EquivalenceGeoResponses : TestGeocodeSettles(g)
    \/ \E o \in EquivalenceObsResponses : TestObservationsSettles(o)
    \/ \E f \in EquivalenceForecastResponses : TestForecastSettles(f)

EquivalenceSpec == Init /\ [][EquivalenceNext]_vars

(***************************************************************************)
(* Properties                                                              *)
(***************************************************************************)
\* the cache key of the request that res answers
ResKey == cacheKey(parseFloat(res.lat.s), parseFloat(res.lng.s))

InFlight == { s \in Slots : req[s].pc # "idle" }

\* C1: a weather request is answered from the cache only if the entry it read
\* is strictly less than 5 minutes old, and then with that entry's payload; a
\* request that read an entry 5 minutes old or older (exactly 5 minutes
\* included) is not answered from it and goes upstream again.
C1_CacheOnlyWhileFresh ==
    /\ res.fromCache =>
          /\ res.cached # Null
          /\ res.at - res.cached[1].timestamp < CACHE_DURATION
          /\ res.data = Some(res.cached[1].data)
          /\ ResKey \in DOMAIN weatherCache /\ weatherCache[ResKey] = res.cached[1]
    /\ \A s \in InFlight :
          req[s].cached # Null => now - req[s].cached[1].timestamp >= CACHE_DURATION
    /\ (res.status \in {200, 404, 500} /\ ~res.fromCache /\ res.cached # Null) =>
          /\ res.at - res.cached[1].timestamp >= CACHE_DURATION
          /\ res.geo # Null

\* a request that found an entry exactly 5 minutes old is waiting for upstream
C1_Witness ==
    \E s \in Slots :
        /\ req[s].pc = "geocode"
        /\ req[s].cached # Null
        /\ now - req[s].cached[1].timestamp = CACHE_DURATION

\* C2 (as claimed): a request answered within 5 minutes of the first 200
\* response for its coordinates makes no upstream call and returns the body of
\* that first response.
C2_SameAsFirstResponse ==
    (/\ res.fromCache
     /\ ResKey \in DOMAIN served
     /\ res.at >= served[ResKey].first.at
     /\ res.at - served[ResKey].first.at < CACHE_DURATION) =>
        /\ res.data = Some(served[ResKey].first.data)
        /\ res.geo = Null /\ ~res.fanout

\* C2 (amended): a request answered from the cache makes no upstream call,
\* arrives less than 5 minutes after the latest write of the entry, and
\* returns the body of the response that wrote it: the first response of the
\* window, unless a request that overlapped the first one wrote after it.
C2_SameAsLatestWrite ==
    res.fromCache =>
        /\ res.geo = Null /\ ~res.fanout /\ res.obs = Null /\ res.fc = Null
        /\ ResKey \in DOMAIN served
        /\ res.data = Some(served[ResKey].last.data)
        /\ res.at >= served[ResKey].last.at
        /\ res.at - served[ResKey].last.at < CACHE_DURATION
        /\ (served[ResKey].first = served[ResKey].last =>
                res.data = Some(served[ResKey].first.data))

\* a cache answer given after two overlapping requests wrote different payloads
C2_Witness ==
    /\ res.fromCache
    /\ ResKey \in DOMAIN served
    /\ served[ResKey].first.data # served[ResKey].last.data
    /\ res.at > served[ResKey].last.at

\* what the observations call and the forecast call produced, read off the
\* upstream response
ObservationsProduced(o) ==
    IF o.kind = "ok" /\ o.hasData THEN Some(o.data[1]) ELSE Null
ForecastProduced(f) ==
    IF f.kind = "ok" /\ f.hasData /\ Len(f.data) > 0
    THEN Some([today |-> f.data[1], daily |-> f.data])
    ELSE Null

\* C3 (as claimed): once the geocode lookup succeeded, a non-success status of
\* the observations (forecast) call still gives a 200 whose observations
\* (forecast) is null and whose other field is what its own call produced.
C3_NonSuccessStatusDegrades ==
    (res.fanout /\ res.status # 0) =>
        /\ (res.obs # Null /\ res.obs[1].kind = "notok") =>
              /\ res.status = 200
              /\ res.data[1].observations = Null
              /\ res.data[1].forecast = ForecastProduced(res.fc[1])
        /\ (res.fc # Null /\ res.fc[1].kind = "notok") =>
              /\ res.status = 200
              /\ res.data[1].forecast = Null
              /\ res.data[1].observations = ObservationsProduced(res.obs[1])

Failed(u) == u.kind \in {"notok", "reject", "badjson"}

\* C4 (as claimed): a failure of any kind in a sub-fetch is caught in its
\* branch: the request is answered 200, the failed field is null and the
\* sibling's result is kept.
C4_FailuresCaughtLocally ==
    (res.fanout /\ res.status # 0) =>
        /\ res.status = 200
        /\ Failed(res.obs[1]) => res.data[1].observations = Null
        /\ Failed(res.fc[1]) => res.data[1].forecast = Null
        /\ res.data[1].observations = ObservationsProduced(res.obs[1])
        /\ res.data[1].forecast = ForecastProduced(res.fc[1])

\* C5: a geocode lookup that succeeds at HTTP level with zero candidates is
\* answered 404 'Could not find location data for these coordinates', and
\* neither sub-fetch is issued.
C5_NoCandidates404 ==
    (/\ res.geo # Null
     /\ res.geo[1].kind = "ok"
     /\ (~res.geo[1].hasData \/ Len(res.geo[1].data) = 0)) =>
        /\ res.status = 404
        /\ res.error = "Could not find location data for these coordinates"
        /\ ~res.fanout /\ res.obs = Null /\ res.fc = Null
        /\ res.data = Null

C5_Witness ==
    /\ res.status = 404
    /\ res.geo = Some(OkData(<<>>))
    /\ ~res.fanout

\* C6: a location lookup that returns a non-success status or rejects fails
\* the request with 500 {error: 'Failed to fetch weather data', message}, and
\* neither sub-fetch is issued.
C6_LookupFailure500 ==
    (res.geo # Null /\ res.geo[1].kind \in {"notok", "reject"}) =>
        /\ res.status = 500
        /\ res.error = "Failed to fetch weather data"
        /\ res.message = IF res.geo[1].kind = "notok"
                         THEN "BoM location API error: " \o res.geo[1].text
                         ELSE res.geo[1].text
        /\ ~res.fanout /\ res.obs = Null /\ res.fc = Null
        /\ res.data = Null

C6_Witness ==
    /\ res.status = 500
    /\ res.geo = Some(NotOk("Service Unavailable"))
    /\ ~res.fanout

\* a query value that is a number: optional white space and sign, digits with
\* an optional fraction, and nothing after them
Numeric(q) ==
    /\ q.def
    /\ LET s == q.s
           i0 == SkipWhile(s, 1, WhiteSpace)
           i1 == IF i0 <= Len(s) /\ s[i0] \in {"-", "+"} THEN i0 + 1 ELSE i0
           i2 == SkipWhile(s, i1, Digits)
           i3 == IF i2 <= Len(s) /\ s[i2] = "." THEN SkipWhile(s, i2 + 1, Digits) ELSE i2
       IN  /\ i3 = Len(s) + 1
           /\ \E i \in i1..Len(s) : s[i] \in Digits

\* C7 (as claimed): a request whose lat or lng is missing or not a number is
\* answered 400 without an upstream call or a cache access; only requests with
\* two numeric values pass validation.
C7_NonNumericRejected ==
    /\ (res.status # 0 /\ ~(Numeric(res.lat) /\ Numeric(res.lng))) =>
          /\ res.status = 400
          /\ res.cached = Null /\ res.geo = Null /\ ~res.fanout
    /\ \A s \in InFlight : Numeric(req[s].lat) /\ Numeric(req[s].lng)

(***************************************************************************)
(* The assignments a page holds, read off its fragments: an assignment     *)
(* gives its path; an unclosed one swallows the text up to the next quote. *)
(***************************************************************************)
RECURSIVE MatchedPaths(_, _, _)
MatchedPaths(page, open, paths) ==
    IF page = <<>> THEN paths
    ELSE LET f == Head(page)
             q == SkipNonQuotes(f.text, 1)
         IN  IF open # Null
             THEN IF q <= Len(f.text)
                  THEN MatchedPaths(Tail(page), Null,
                                    Append(paths, open[1] \o SubSeq(f.text, 1, q - 1)))
                  ELSE MatchedPaths(Tail(page), Some(open[1] \o f.text), paths)
             ELSE CASE f.kind = "assignment" ->
                          MatchedPaths(Tail(page), Null, Append(paths, f.path))
                    [] f.kind = "unclosed" -> MatchedPaths(Tail(page), Some(f.path), paths)
                    [] f.kind = "filler" -> MatchedPaths(Tail(page), Null, paths)

Assignments(page) == MatchedPaths(page, Null, <<>>)

\* C8: a loop page fetched successfully that holds no theImageNames
\* assignment is answered 404 {error: 'No radar images found'}; a 200 never
\* carries an empty images list.
C8_NoImages404 ==
    /\ (/\ radarRes.status # 0
        /\ radarRes.upstream.kind = "ok"
        /\ Assignments(radarRes.upstream.page) = <<>>) =>
            /\ radarRes.status = 404
            /\ radarRes.error = "No radar images found"
            /\ ~radarRes.hasImages
    /\ radarRes.status = 200 => radarRes.hasImages /\ Len(radarRes.images) > 0

\* a page of look-alikes only was answered
C8_Witness ==
    /\ radarRes.status = 404
    /\ radarRes.upstream.kind = "ok"
    /\ Len(radarRes.upstream.page) = MaxFrags
    /\ \E i \in 1..Len(radarRes.upstream.page) :
           LiteralAt(radarRes.upstream.page[i].text, 1, Keyword)

\* C9: a non-success status s of the loop page is answered with status s and
\* {error} carrying the upstream reason text, and the body is not parsed.
C9_UpstreamStatusPassedThrough ==
    (radarRes.status # 0 /\ radarRes.upstream.kind = "notok") =>
        /\ radarRes.status = radarRes.upstream.status
        /\ radarRes.error = "Failed to fetch radar data: " \o radarRes.upstream.text
        /\ ~radarRes.parsed
        /\ ~radarRes.hasImages /\ radarRes.images = <<>>

C9_Witness ==
    /\ radarRes.status = 503
    /\ radarRes.upstream = LoopNotOk(503, "Service Unavailable")

\* C10: the images of a 200 are, one for one and in document order, the
\* assignments of the page, whatever their bracket indices, duplicates kept.
C10_DocumentOrder ==
    radarRes.status = 200 =>
        LET paths == Assignments(radarRes.upstream.page)
        IN  /\ Len(radarRes.images) = Len(paths)
            /\ \A i \in 1..Len(paths) : radarRes.images[i].url = RadarHost \o paths[i]

\* a page with a repeated assignment and indices out of order was answered
C10_Witness ==
    /\ radarRes.status = 200
    /\ Len(radarRes.images) = 3
    /\ radarRes.images[1].url = radarRes.images[3].url
    /\ radarRes.images[1].url = RadarHost \o PathA
    /\ radarRes.images[2].url = RadarHost \o PathB

\* the digits form a '.T.<digits>.png' segment of the path
TimestampSegment(path, digits) ==
    \E i \in 1..Len(path) :
        LiteralAt(path, i, <<".", "T", ".">> \o digits \o <<".", "p", "n", "g">>)

\* C11 (as claimed): a timestamp is the empty string or exactly 12 decimal
\* digits taken from a '.T.<digits>.png' segment of the path; it is never
\* null, extraction never throws, and a path without the '.T.' marker yields
\* the empty string.
C11_EmptyOrTwelveDigits ==
    (call.fn = "extractTimestamp" /\ ret.done) =>
        /\ ~ret.threw
        /\ ret.value # Null
        /\ LET path == call.args[1]
               timestamp == ret.value[1]
           IN  /\ \/ timestamp = <<>>
                  \/ /\ Len(timestamp) = 12
                     /\ \A i \in 1..Len(timestamp) : timestamp[i] \in Digits
                     /\ TimestampSegment(path, timestamp)
               /\ (~\E i \in 1..Len(path) : LiteralAt(path, i, <<".", "T", ".">>)) =>
                      timestamp = <<>>

\* a call of buildProductId has returned
ProductIdBuilt == call.fn = "buildProductId" /\ ret.done

\* C12: in rain mode the product id is 'IDR', the base id verbatim, and the
\* suffix of the range: 64 -> 4, 128 -> 3, 256 -> 2, 512 -> 1.
C12_RainProductId ==
    (ProductIdBuilt /\ call.args[2] = "rain") =>
        LET baseId == call.args[1]
            range == call.args[3]
            productId == ret.value[1]
        IN  /\ Len(productId) = Len(baseId) + 4
            /\ SubSeq(productId, 1, 3) = <<"I", "D", "R">>
            /\ SubSeq(productId, 4, Len(productId) - 1) = baseId
            /\ productId[Len(productId)] =
                 CASE range = "64" -> "4" [] range = "128" -> "3"
                   [] range = "256" -> "2" [] range = "512" -> "1"

\* a base id with a leading zero at the 64 km range
C12_Witness ==
    /\ ProductIdBuilt
    /\ call.args = <<(<<"0", "2">>), "rain", "64", Absent>>
    /\ ret.value = Some(<<"I", "D", "R", "0", "2", "4">>)

\* C13: in doppler mode with a non-empty dopplerProductId the result is that
\* identifier, whatever the range and the base id, and nothing is logged.
C13_DopplerIdUnchanged ==
    (/\ ProductIdBuilt
     /\ call.args[2] = "doppler"
     /\ call.args[4].def /\ call.args[4].s # <<>>) =>
        /\ ret.value = Some(call.args[4].s)
        /\ ret.warnings = 0

\* the doppler id of another radar at the 512 km range
C13_Witness ==
    /\ ProductIdBuilt
    /\ call.args = <<(<<"6", "6">>), "doppler", "512", Str(<<"I", "D", "R", "0", "2", "I">>)>>
    /\ ret.value = Some(<<"I", "D", "R", "0", "2", "I">>)

\* C14: in doppler mode with dopplerProductId undefined or empty the result
\* is the rain-mode product id of the same base id and range, one warning is
\* logged, and nothing is thrown.
C14_DopplerFallsBackToRain ==
    (/\ ProductIdBuilt
     /\ call.args[2] = "doppler"
     /\ (~call.args[4].def \/ call.args[4].s = <<>>)) =>
        /\ ~ret.threw
        /\ ret.value =
             Some(buildProductId(call.args[1], "rain", call.args[3], call.args[4]).value)
        /\ ret.value[1][Len(ret.value[1])] \in {"1", "2", "3", "4"}
        /\ ret.warnings = 1

\* the empty string as doppler id
C14_Witness ==
    /\ ProductIdBuilt
    /\ call.args = <<(<<"0", "7", "1">>), "doppler", "256", Str(<<>>)>>
    /\ ret.value = Some(<<"I", "D", "R", "0", "7", "1", "2">>)
    /\ ret.warnings = 1

\* C15 (as claimed): findNearestRadars returns min(limit, stations.length)
\* elements for every limit, 0 included, and all of them when limit is
\* omitted; the result is non-decreasing in distance and each element is an
\* input station with all its fields plus distance.
C15_LengthOrderFields ==
    (call.fn = "findNearestRadars" /\ ret.done) =>
        LET radars == call.args[3]
            limit == call.args[4]
            nearest == ret.value[1]
        IN  /\ Len(nearest) = IF limit = Null THEN Len(radars)
                              ELSE IF limit[1] < Len(radars) THEN limit[1] ELSE Len(radars)
            /\ \A i \in 1..(Len(nearest) - 1) : nearest[i].distance <= nearest[i + 1].distance
            /\ \A i \in 1..Len(nearest) :
                   /\ "distance" \in DOMAIN nearest[i]
                   /\ \E j \in 1..Len(radars) :
                          \A f \in DOMAIN radars[j] : nearest[i][f] = radars[j][f]

\* C16: no upstream call is repeated within a request, whatever its outcome:
\* a radar request issues exactly one fetch, also when the same product was
\* answered before, and a weather request at most one geocode call, one
\* observations call and one forecast call.
C16_NoUpstreamRetry ==
    /\ \A s \in Slots :
          /\ req[s].pc = "idle" => req[s].calls = NoCalls
          /\ req[s].pc = "geocode" => req[s].calls = [geo |-> 1, obs |-> 0, fc |-> 0]
          /\ req[s].pc = "fanout" => req[s].calls = [geo |-> 1, obs |-> 1, fc |-> 1]
    /\ res.calls.geo <= 1 /\ res.calls.obs <= 1 /\ res.calls.fc <= 1
    /\ radarReq.pc = "fetch" => radarReq.fetches = 1
    /\ radarRes.status # 0 => radarRes.fetches = 1

\* a weather request whose geocode call was rejected and a radar request
\* whose fetch failed have both been answered
C16_Witness ==
    /\ res.status = 500
    /\ res.geo = Some(Reject("Network error"))
    /\ res.calls = [geo |-> 1, obs |-> 0, fc |-> 0]
    /\ radarRes.status = 503
    /\ radarRes.fetches = 1

\* the coordinates a payload was assembled for
PayloadKey(data) == cacheKey(data.location.lat, data.location.lng)

\* C17: requests share a cache entry exactly when their keys 'lat,lng' are
\* the same string: an entry sits under the key of the coordinates it was
\* assembled for, distinct keys hold payloads of distinct coordinates, a
\* request answered from the cache gets the entry of its own key, whose
\* payload carries its own coordinates, and a request that found no entry
\* under its key goes upstream whatever other entries there are.
C17_EntryPerKeyString ==
    /\ \A k \in DOMAIN weatherCache : PayloadKey(weatherCache[k].data) = k
    /\ res.fromCache =>
          /\ res.cached = CacheGet(ResKey)
          /\ res.data[1].location.lat = parseFloat(res.lat.s)
          /\ res.data[1].location.lng = parseFloat(res.lng.s)
    /\ (res.status = 200 /\ ~res.fromCache) =>
          /\ res.cached = Null
          /\ PayloadKey(res.data[1]) = ResKey
    /\ \A s \in InFlight : req[s].cached = Null

\* a request for 1.0,3 was answered with the entry written for 1,3 while
\* entries for 1.5,3 and 15,3 and 1,53 were there
C17_Witness ==
    /\ res.fromCache
    /\ res.lat = Str(<<"1", ".", "0">>) /\ res.lng = Str(<<"3">>)
    /\ {"1,3", "1.5,3", "15,3", "1,53"} \subseteq DOMAIN weatherCache

\* C18: the entry of a key is the payload of the latest successful
\* aggregation for that key, stamped with the time of that aggregation,
\* whether the entry it replaced was fresh or stale; keys without a
\* successful aggregation have no entry.
C18_LatestWriteWins ==
    /\ DOMAIN weatherCache = DOMAIN served
    /\ \A k \in DOMAIN weatherCache :
          weatherCache[k] = [data |-> served[k].last.data, timestamp |-> served[k].last.at]
    /\ (res.status = 200 /\ ~res.fromCache /\ res.at = now) =>
          weatherCache[ResKey] = [data |-> res.data[1], timestamp |-> now]

\* an entry that was still fresh has been replaced by a later aggregation
C18_Witness ==
    \E k \in DOMAIN weatherCache :
        /\ served[k].last.at > served[k].first.at
        /\ served[k].last.at - served[k].first.at < CACHE_DURATION
        /\ served[k].last.data # served[k].first.data
        /\ weatherCache[k].timestamp = served[k].last.at

\* hh:mm am/pm with one or two hour digits in 1..12 and two minute digits
TwelveHourTime(t) ==
    \E h \in 1..2 :
        /\ Len(t) = h + 6
        /\ \A i \in 1..h : t[i] \in Digits
        /\ DigitsToNat(SubSeq(t, 1, h)) \in 1..12
        /\ t[h + 1] = ":"
        /\ t[h + 2] \in Digits /\ t[h + 3] \in Digits
        /\ t[h + 4] = " "
        /\ SubSeq(t, h + 5, h + 6) \in { <<"a", "m">>, <<"p", "m">> }

\* C20 (as claimed): formatTime returns '--' for undefined, for the empty
\* string and for every string that is not a parseable date, returns a
\* 12-hour time with 2-digit minutes for a valid ISO string, and never throws.
C20_DashesOrTwelveHourTime ==
    (call.fn = "formatTime" /\ ret.done) =>
        LET isoString == call.args[1]
        IN  /\ ~ret.threw
            /\ ret.value # Null
            /\ IF ~isoString.def \/ isoString.s = <<>> \/ NewDate(isoString.s).nan
               THEN ret.value[1] = <<"-", "-">>
               ELSE TwelveHourTime(ret.value[1])

\* C19: while RadarViewer is mounted exactly one refresh interval is set, of
\* 5 minutes and for the current product id; a tick of it issues a fetch for
\* that product id; a failed fetch shows as the error state and issues no
\* fetch itself.
C19_OnePollTimer ==
    /\ viewer.mounted =>
          timers = <<[productId |-> currentProductId(viewer), period |-> 5 * 60 * 1000]>>
    /\ (viewer.mounted /\ viewerLog.event = "tick") =>
          /\ Len(loads) = Len(viewerLog.before) + 1
          /\ loads[Len(loads)].productId = currentProductId(viewer)
    /\ viewerLog.event = "failed" =>
          /\ Len(loads) = Len(viewerLog.before) - 1
          /\ \A i \in 1..Len(loads) : \E j \in 1..Len(viewerLog.before) : loads[i] = viewerLog.before[j]
          /\ viewerLog.live =>
                /\ viewer.error = Some(LoadFailed) /\ viewer.radarError = Some(LoadFailed)
                /\ ~viewer.isLoading

\* the refresh after a product change failed and nothing else is in flight
C19_Witness ==
    /\ viewer.mounted
    /\ viewerLog.event = "failed"
    /\ viewer.error = Some(LoadFailed)
    /\ ~viewer.isLoading
    /\ loads = <<>>
    /\ timers[1].productId = <<"I", "D", "R", "6", "6", "I">>
    /\ viewer.images # <<>>

\* the text holds the words
HasText(text, words) == \E i \in 1..Len(text) : LiteralAt(text, i, words)

\* C21 (as claimed): getCurrentPosition rejects with 'Geolocation is not
\* supported by your browser' without navigator.geolocation, with a
\* 'Location access denied' message for PERMISSION_DENIED, 'Location
\* information unavailable' for POSITION_UNAVAILABLE, 'Location request
\* timed out' for TIMEOUT and 'Geolocation error: <message>' for any other
\* code; on success it resolves with {lat, lng} of the position.
C21_MessagePerFailure ==
    (call.fn = "getCurrentPosition" /\ ret.done) =>
        LET browser == call.browser
            message == ret.value[1]
        IN  IF ~browser.supported
            THEN ret.threw /\ message = <<"G", "e", "o", "l", "o", "c", "a", "t", "i", "o", "n", " ", "i", "s", " ", "n", "o", "t", " ", "s", "u", "p", "p", "o", "r", "t", "e", "d", " ", "b", "y", " ", "y", "o", "u", "r", " ", "b", "r", "o", "w", "s", "e", "r">>
            ELSE IF browser.ok
            THEN ~ret.threw /\ message = [lat |-> browser.latitude, lng |-> browser.longitude]
            ELSE /\ ret.threw
                 /\ CASE browser.code = 1 -> HasText(message, <<"L", "o", "c", "a", "t", "i", "o", "n", " ", "a", "c", "c", "e", "s", "s", " ", "d", "e", "n", "i", "e", "d">>)
                      [] browser.code = 2 -> HasText(message, <<"L", "o", "c", "a", "t", "i", "o", "n", " ", "i", "n", "f", "o", "r", "m", "a", "t", "i", "o", "n", " ", "u", "n", "a", "v", "a", "i", "l", "a", "b", "l", "e">>)
                      [] browser.code = 3 -> HasText(message, <<"L", "o", "c", "a", "t", "i", "o", "n", " ", "r", "e", "q", "u", "e", "s", "t", " ", "t", "i", "m", "e", "d", " ", "o", "u", "t">>)
                      [] OTHER -> message = <<"G", "e", "o", "l", "o", "c", "a", "t", "i", "o", "n", " ", "e", "r", "r", "o", "r", ":", " ">> \o browser.message

\* C22 (as claimed): in every weather aggregation the geocode lookup has
\* completed before the observations and forecast calls are issued, both are
\* issued together before either is awaited, and the response and the cache
\* write happen only after both have settled.
C22_GeocodeThenBothThenAnswer ==
    /\ \A s \in Slots :
          /\ (req[s].calls.obs > 0 \/ req[s].calls.fc > 0) =>
                req[s].geo # Null /\ req[s].location # Null
          /\ req[s].calls.obs = req[s].calls.fc
    /\ (res.calls.obs > 0 \/ res.calls.fc > 0) =>
          /\ res.geo # Null
          /\ res.calls.obs = res.calls.fc
          /\ res.status # 0 => res.obs # Null /\ res.fc # Null
    /\ \A k \in DOMAIN weatherCache : k \in DOMAIN served

\* C23: a request answered 400, 404 or 500 leaves the cache as it was and
\* carries no payload, a stale entry included; the cache changes only in the
\* step that answers 200 after an aggregation, and then by the entry of that
\* request's key, holding that response's payload and the current time.
C23_FailuresLeaveCache ==
    [][ /\ (res' # res /\ res'.status \in {400, 404, 500}) =>
              /\ weatherCache' = weatherCache
              /\ res'.data = Null /\ ~res'.fromCache
        /\ weatherCache' # weatherCache =>
              /\ res'.status = 200 /\ ~res'.fromCache
              /\ res'.obs # Null /\ res'.fc # Null
              /\ weatherCache' = CacheSet(weatherCache, ResKey',
                                          [data |-> res'.data[1], timestamp |-> now]) ]_vars

\* the revalidation of a stale entry failed: the request was answered 500
\* without a payload and the stale entry is still in the cache
C23_Witness ==
    /\ res.status = 500
    /\ res.fanout
    /\ res.cached # Null
    /\ res.at - res.cached[1].timestamp >= CACHE_DURATION
    /\ res.data = Null
    /\ CacheGet(ResKey) = res.cached

\* C24: requests for one key that are past the cache check together are not
\* coalesced: each makes its own geocode, observations and forecast call;
\* the entry of the key is always that of the request that wrote last, so a
\* request answered 200 from upstream finds its own payload and answer time
\* in the cache until the next write, and there is one entry for the key.
C24_OverlappingRequestsLastWriterWins ==
    /\ \A s \in InFlight :
          /\ req[s].calls.geo = 1
          /\ req[s].pc = "fanout" => req[s].calls = [geo |-> 1, obs |-> 1, fc |-> 1]
    /\ (res.status = 200 /\ ~res.fromCache) =>
          /\ res.calls = [geo |-> 1, obs |-> 1, fc |-> 1]
          /\ res.geo # Null /\ res.obs # Null /\ res.fc # Null
          /\ CacheGet(ResKey) = Some([data |-> res.data[1], timestamp |-> res.at])
          /\ served[ResKey].last = [data |-> res.data[1], at |-> res.at]
    /\ Cardinality(DOMAIN weatherCache) <= 1

\* two requests that missed the cache together have both been answered 200
\* with different payloads at the same time; the entry is the second one's
C24_Witness ==
    /\ InFlight = {}
    /\ res.status = 200 /\ ~res.fromCache
    /\ res.cached = Null
    /\ served[ResKey].first.at = served[ResKey].last.at
    /\ served[ResKey].first.data # served[ResKey].last.data
    /\ weatherCache[ResKey].data = res.data[1]

(***************************************************************************)
(* C25: on start a radar ends up selected without user action: once the    *)
(* effects of the start have run and no IP lookup is awaited,              *)
(* selectedRadar is not null, whatever the URL radar id, the saved radar   *)
(* and the outcome of the IP lookup.                                       *)
(***************************************************************************)
C25_RadarSelectedAfterStart ==
    (app.pc = "stable" /\ app.ip = "idle") => app.selectedRadar # Null

(***************************************************************************)
(* C28: no stable state has the mode "doppler" with a selected radar whose *)
(* hasDoppler is false, however the state was reached; and right after a   *)
(* range button is clicked the mode is "rain" and the range is the one     *)
(* clicked, also when the mode was "doppler" before.                       *)
(***************************************************************************)
C28_DopplerOnlyWhereSupported ==
    /\ (app.pc = "stable" /\ app.selectedRadar # Null /\ app.radarMode = "doppler")
            => app.selectedRadar[1].hasDoppler
    /\ app.event.name = "range"
            => app.radarMode = "rain" /\ app.selectedRange = app.event.range

\* the effects have just switched the mode from "doppler" to "rain" on a
\* radar without doppler
C28_Witness ==
    /\ app.event.name = "effects" /\ app.event.modeBefore = "doppler"
    /\ app.radarMode = "rain"
    /\ app.selectedRadar # Null /\ ~app.selectedRadar[1].hasDoppler

(***************************************************************************)
(* C26: in RadarViewer, once no fetch is in flight, the images on display  *)
(* are those fetched for the product id that is selected now: a response   *)
(* for a product id selected before does not replace them.                 *)
(***************************************************************************)
C26_ImagesOfCurrentProduct ==
    (viewer.mounted /\ loads = <<>> /\ ~viewer.isLoading /\ viewer.error = Null) =>
        \A k \in 1..Len(viewer.images) :
            viewer.images[k].productId = currentProductId(viewer)

(***************************************************************************)
(* C27: in RadarViewer, whenever images is not empty, currentIndex is at   *)
(* least 0 and less than its length, after any interleaving of loads that  *)
(* complete (also with fewer frames), animation ticks, Prev, Next and      *)
(* Latest; Next after the last frame shows the first and Prev before the   *)
(* first frame shows the last.                                             *)
(***************************************************************************)
C27_IndexWithinImages ==
    /\ viewer.images # <<>> =>
            viewer.currentIndex >= 0 /\ viewer.currentIndex < Len(viewer.images)
    /\ viewerLog.event = "next" =>
            viewer.currentIndex =
                IF viewerLog.index = Len(viewer.images) - 1 THEN 0 ELSE viewerLog.index + 1
    /\ viewerLog.event = "prev" =>
            viewer.currentIndex =
                IF viewerLog.index = 0 THEN Len(viewer.images) - 1 ELSE viewerLog.index - 1

(***************************************************************************)
(* C29: the Express app of the backend test file answers like              *)
(* server/index.js: given the same requests and the same upstream          *)
(* responses it sends the same status and body and its cache holds the     *)
(* same entries.                                                           *)
(***************************************************************************)
C29_TestAppAnswersAlike ==
    (mock.pc = "idle" /\ mock.of = res) =>
        /\ mock.res.status = res.status
        /\ mock.res.error = res.error /\ mock.res.message = res.message
        /\ mock.res.data = res.data
        /\ mock.cache = weatherCache

\* a payload with a null sub-field
Degraded(weatherData) == weatherData.observations = Null \/ weatherData.forecast = Null

(***************************************************************************)
(* C30 (as claimed): a payload whose observations or forecast is null is   *)
(* cached like a complete one: a request for the same key that arrives     *)
(* less than 5 minutes after it was written is answered with that payload  *)
(* and without an upstream call.                                           *)
(***************************************************************************)
C30_DegradedServedForFiveMinutes ==
    (/\ res.fromCache
     /\ ResKey \in DOMAIN served
     /\ Degraded(served[ResKey].first.data)
     /\ res.at >= served[ResKey].first.at
     /\ res.at - served[ResKey].first.at < CACHE_DURATION) =>
        /\ res.data = Some(served[ResKey].first.data)
        /\ res.calls = NoCalls

(***************************************************************************)
(* C30 (amended): a degraded payload is written to the cache like a        *)
(* complete one, and a request answered from the cache with a degraded     *)
(* payload makes no upstream call, arrives less than 5 minutes after the   *)
(* latest write of the entry and returns the payload of that write: the    *)
(* degraded payload, unless a request that was already past the cache      *)
(* check wrote the entry after it.                                         *)
(***************************************************************************)
C30_DegradedCachedLikeComplete ==
    /\ (res.status = 200 /\ ~res.fromCache /\ Degraded(res.data[1])) =>
            /\ ResKey \in DOMAIN weatherCache
            /\ weatherCache[ResKey] = [data |-> res.data[1], timestamp |-> res.at]
    /\ (res.fromCache /\ ResKey \in DOMAIN served /\ Degraded(served[ResKey].last.data)) =>
            /\ res.data = Some(served[ResKey].last.data)
            /\ res.calls = NoCalls /\ res.geo = Null /\ ~res.fanout
            /\ res.at >= served[ResKey].last.at
            /\ res.at - served[ResKey].last.at < CACHE_DURATION

\* a request that arrives just before the 5 minutes are over is answered
\* from the cache with a payload whose observations are null
C30_Witness ==
    /\ res.fromCache
    /\ res.data[1].observations = Null /\ res.data[1].forecast # Null
    /\ res.at - res.cached[1].timestamp = CACHE_DURATION - MaxSlack
    /\ res.calls = NoCalls

====
